---- MODULE Spec2Model ----
(***************************************************************************)
(* A model of the orchestration layer of the mobility dashboard backend:   *)
(*   backend/services/snapshot_service.py  (SnapshotService)               *)
(*   backend/fallback/cache.py             (AdapterCache)                  *)
(*   backend/analytics/traffic_analytics.py, airquality_analytics.py       *)
(*                                                                         *)
(* Python values are modelled as records tagged with a "kind".  None is    *)
(* NoneV; an attribute that does not exist on an object is Absent, and     *)
(* getattr(obj, name, None) is GetAttr.                                    *)
(***************************************************************************)
EXTENDS Integers, Sequences, FiniteSets, TLC

VARIABLES
    \* ---- SnapshotService ------------------------------------------------
    adapters,           \* argument `adapters` of __init__ while it runs (None afterwards)
    adapter_specs,      \* argument `adapter_specs` of __init__ while it runs
    _adapters,          \* self._adapters       (list of adapters)
    _adapter_specs,     \* self._adapter_specs  (list of AdapterCallSpec)
    pc,                 \* position of build_snapshot: idle, loop, done, raised
    idx,                \* 1-based position of the for loop over the registrations
    snapshot,           \* the MobilitySnapshot under construction
    partial,            \* local variable `partial` of build_snapshot
    airquality_status,  \* the attribute snapshot.airquality.status (heap cell)
    location,           \* the argument of build_snapshot
    calls,              \* history: one record per adapter.fetch call expression of the build
    last_nonempty,      \* history: per field, the latest non-None value a fetch returned
    metrics_calls,      \* history: the arguments of each build_traffic_metrics call of the build
    clock,              \* datetime.now() as a counter
    \* ---- AdapterCache ---------------------------------------------------
    _cache,             \* self._cache        name -> payload
    _timestamps,        \* self._timestamps   name -> datetime
    _db,                \* self._db is not None
    firestore,          \* the documents of collection "adapter_cache": name -> document
    ret,                \* what the last cache operation returned
    stored,             \* history: per name, the payload of the last successful store of this instance
    superseded,         \* history: per name, the payloads this instance stored before the last one
    waiting,            \* the calls that are inside a request to the database
    started,            \* history: the number of cache calls started so far
    retired,            \* the memory layers of replaced instances that still have calls running
    \* ---- _merge applied on its own ---------------------------------------
    m_target, m_partial, m_once, m_count,
    \* ---- threads calling one AdapterCache ---------------------------------
    threads             \* per thread: the call it is in, its position and its locals

svars == <<adapters, adapter_specs, _adapters, _adapter_specs, pc, idx, snapshot, partial, airquality_status,
           location, calls, last_nonempty, metrics_calls>>
cvars == <<_cache, _timestamps, _db, firestore, ret, stored, superseded, waiting, started, retired>>
mvars == <<m_target, m_partial, m_once, m_count>>
tvars == <<threads>>
vars == <<svars, clock, cvars, mvars, tvars>>

---------------------------------------------------------------------------
(* Bounds of the model *)

\* registrations per SnapshotService
MaxRegs == 2

\* successful fetches (stores) one AdapterCache history may hold
MaxClock == 2

\* cache calls one history may start
MaxCalls == 3

\* callers that may be inside a cache call at a time
MaxThreads == 2

---------------------------------------------------------------------------
(* Python values *)

NoneV == [kind |-> "None"]
Absent == [kind |-> "absent"]
Obj(i) == [kind |-> "obj", id |-> i]
IntV(n) == [kind |-> "int", v |-> n]
DateTime(t) == [kind |-> "datetime", t |-> t]
EmptyDict == [k \in {} |-> NoneV]

\* getattr(obj, name, None)
GetAttr(obj, name) == IF obj[name] = Absent THEN NoneV ELSE obj[name]

\* d[key] = value on a dict
DictSet(d, key, value) ==
    [k \in DOMAIN d \cup {key} |-> IF k = key THEN value ELSE d[k]]

\* the dicts with keys among `keys` and values among `values`
DictsOver(keys, values) == UNION {[S -> values] : S \in SUBSET keys}

\* d.pop(key, None) on a dict
DictPop(d, key) == [k \in DOMAIN d \ {key} |-> d[k]]

\* the slots _merge copies, in the order it visits them
Fields == <<"bikes", "buses", "traffic", "airquality", "population", "tours",
            "alerts", "recommendations">>
FieldSet == {Fields[i] : i \in 1..Len(Fields)}

\* MobilitySnapshot(timestamp, location, ..., source_status): every slot defaults
\* to None; the constructor never creates the attribute `tours`.
MobilitySnapshot(timestamp, loc, source_status) ==
    [kind |-> "MobilitySnapshot",
     timestamp |-> timestamp, location |-> loc,
     bikes |-> NoneV, buses |-> NoneV, traffic |-> NoneV, airquality |-> NoneV,
     population |-> NoneV, tours |-> Absent, alerts |-> NoneV,
     recommendations |-> NoneV,
     source_status |-> source_status]

---------------------------------------------------------------------------
(* backend/analytics/traffic_analytics.py *)

\* a TrafficIncident; category and severity are strings, "None" standing for None
TrafficIncident(category, severity, delay_minutes) ==
    [kind |-> "TrafficIncident", category |-> category, severity |-> severity,
     delay_minutes |-> delay_minutes]

ListV(items) == [kind |-> "list", items |-> items]

RECURSIVE GCD(_, _)
GCD(a, b) == IF b = 0 THEN a ELSE GCD(b, a % b)

\* a / b of two non-negative numbers, as a reduced fraction
Div(a, b) == LET g == GCD(a, b) IN [num |-> a \div g, den |-> b \div g]

RECURSIVE CountBy(_, _, _)
\* the dict built by `d[key(inc)] = d.get(key(inc), 0) + 1` over the incidents
\* whose key is not None
CountBy(items, attr, d) ==
    IF items = <<>> THEN d
    ELSE LET k == Head(items)[attr]
             d2 == IF k # "None"
                   THEN DictSet(d, k, (IF k \in DOMAIN d THEN d[k] ELSE 0) + 1)
                   ELSE d
         IN CountBy(Tail(items), attr, d2)

RECURSIVE SumDelay(_)
\* sum((inc.delay_minutes or 0) for inc in incidents)
SumDelay(items) ==
    IF items = <<>> THEN 0
    ELSE (IF Head(items).delay_minutes = NoneV THEN 0 ELSE Head(items).delay_minutes.v)
         + SumDelay(Tail(items))

TrafficMetrics(congestion, avg_speed, total, by_cat, by_sev, total_delay, avg_delay, incidents) ==
    [kind |-> "TrafficMetrics", congestion_level |-> congestion,
     average_speed |-> avg_speed, total_incidents |-> total,
     incidents_by_category |-> by_cat, incidents_by_severity |-> by_sev,
     total_delay_minutes |-> total_delay, average_delay_minutes |-> avg_delay,
     incidents |-> incidents]

\* build_traffic_metrics(incidents, radius_km): [raised, value].  Reading
\* inc.category of an element without that attribute raises AttributeError.
build_traffic_metrics(incidents, radius_km) ==
    LET items == incidents.items
        total == Len(items)
    IN IF \E i \in 1..total : items[i].kind # "TrafficIncident"
       THEN [raised |-> TRUE, value |-> NoneV]
       ELSE LET by_category == CountBy(items, "category", [k \in {} |-> 0])
                by_severity == CountBy(items, "severity", [k \in {} |-> 0])
                total_delay == SumDelay(items)
                avg_delay == IF total # 0 THEN Div(total_delay, total) ELSE Div(0, 1)
                \* incidents_per_km = total / radius_km if radius_km > 0 else 0
                congestion ==
                    IF radius_km > 0 /\ total > 5 * radius_km THEN "high"
                    ELSE IF radius_km > 0 /\ total > 2 * radius_km THEN "medium"
                    ELSE "low"
                avg_speed == IF congestion = "high" THEN 15
                             ELSE IF congestion = "medium" THEN 30 ELSE 50
            IN [raised |-> FALSE,
                value |-> TrafficMetrics(congestion, avg_speed, total, by_category,
                                         by_severity, total_delay, avg_delay, incidents)]

---------------------------------------------------------------------------
(* backend/analytics/airquality_analytics.py *)

Pollutants == {"pm2_5", "pm10", "nitrogen_dioxide", "carbon_monoxide", "ozone",
               "sulphur_dioxide"}

POLLUTANT_LIMITS ==
    [pm2_5 |-> 25, pm10 |-> 50, nitrogen_dioxide |-> 40, carbon_monoxide |-> 10,
     ozone |-> 100, sulphur_dioxide |-> 20]

PollutantLevels(levels) == [kind |-> "PollutantLevels", levels |-> levels]

\* an air-quality object: aqi_value and pollutants are attributes that may be
\* missing (Absent); has_status tells whether the object has an attribute `status`
AirObject(aqi_value, pollutants, has_status) ==
    [kind |-> "air", aqi_value |-> aqi_value, pollutants |-> pollutants,
     has_status |-> has_status]

\* categorise_aqi(metrics): [raised, value]
categorise_aqi(metrics) ==
    IF metrics.aqi_value.kind # "int"
    THEN [raised |-> TRUE, value |-> "None"]
    ELSE [raised |-> FALSE,
          value |-> IF metrics.aqi_value.v <= 50 THEN "low"
                    ELSE IF metrics.aqi_value.v <= 100 THEN "medium" ELSE "high"]

\* count_unsafe_pollutants(metrics) over check_pollutant_safety(metrics):
\* [raised, value]; the assert isinstance(pollutants, PollutantLevels) raises
count_unsafe_pollutants(metrics) ==
    IF metrics.pollutants.kind # "PollutantLevels"
    THEN [raised |-> TRUE, value |-> 0]
    ELSE [raised |-> FALSE,
          value |-> Cardinality({p \in Pollutants :
                        metrics.pollutants.levels[p] > POLLUTANT_LIMITS[p]})]

\* overall_air_quality_level(metrics): [raised, value]
overall_air_quality_level(metrics) ==
    LET aqi_cat == categorise_aqi(metrics)
        unsafe_count == count_unsafe_pollutants(metrics)
    IN IF aqi_cat.raised \/ unsafe_count.raised
       THEN [raised |-> TRUE, value |-> "None"]
       ELSE [raised |-> FALSE,
             value |-> IF aqi_cat.value = "low" /\ unsafe_count.value = 0 THEN "low"
                       ELSE IF aqi_cat.value = "high" \/ unsafe_count.value >= 3
                            THEN "high" ELSE "medium"]

---------------------------------------------------------------------------
(* Data sources: what is registered and what a fetch can return *)

\* An adapter object: its class name, what source_name() returns and whether
\* source_name() raises (DataAdapter.source_name raises NotImplementedError).
Adapter(cls, source_name, name_raises) ==
    [cls |-> cls, source_name |-> source_name, name_raises |-> name_raises]

AdapterA == Adapter("AdapterA", "A", FALSE)
AdapterB == Adapter("AdapterB", "B", FALSE)
AdapterC == Adapter("AdapterC", "C", FALSE)
\* an adapter that inherits DataAdapter.source_name
UnnamedAdapter == Adapter("UnnamedAdapter", "None", TRUE)

\* a list may hold the same adapter (or two adapters of one class) twice
Adapters == {AdapterA, AdapterB, UnnamedAdapter}

\* AdapterCallSpec(adapter, kwargs)
AdapterCallSpec(adapter, kwargs) == [adapter |-> adapter, kwargs |-> kwargs]

RadiusKwargs(n) == [k \in {"radius_km"} |-> IntV(n)]
\* a parameter bag that names `location` itself
LocationKwargs(loc) == [k \in {"location"} |-> [kind |-> "str", v |-> loc]]

AdapterCallSpecs ==
    {AdapterCallSpec(AdapterA, EmptyDict), AdapterCallSpec(AdapterB, RadiusKwargs(7)),
     AdapterCallSpec(UnnamedAdapter, EmptyDict)}

NonEmptySeqs(S, n) == UNION {[1..k -> S] : k \in 1..n}

Locations == {"dublin", "cork"}

\* the values a source can put in a slot on its i-th call
GoodIncidents(i) ==
    ListV(<<TrafficIncident("Jam", "Major", IntV(i)),
            TrafficIncident("Jam", "None", NoneV),
            TrafficIncident("RoadWorks", "Minor", IntV(0))>>)
\* its element is no TrafficIncident (a dict, as the tests' adapters return)
BadIncidents == ListV(<<[kind |-> "dict"]>>)

CleanAir ==
    PollutantLevels([p \in Pollutants |-> 1])
DirtyAir ==
    PollutantLevels([p \in Pollutants |-> IF p = "ozone" THEN 150 ELSE 1])

AirValues ==
    {AirObject(IntV(40), CleanAir, FALSE),   \* AirQualityMetrics: no attribute status
     AirObject(IntV(40), DirtyAir, TRUE),
     AirObject(IntV(80), Absent, TRUE)}      \* the tests' DummyAir: no pollutants

SlotValues(f, i) ==
    IF f = "traffic" THEN {GoodIncidents(i), BadIncidents, Obj(i)}
    ELSE IF f = "airquality" THEN AirValues
    ELSE {Obj(i)}

\* the sets of slots one source fills
OwnedSets == {{}} \cup {{f} : f \in FieldSet}

\* The object a fetch returns: the slots in `owned` hold values; the other slots
\* are None when the object is a MobilitySnapshot (which has no attribute tours)
\* and do not exist when it is another type (TrafficSnapshot, AirQualitySnapshot).
PartialResult(is_snapshot, owned, t) ==
    [a \in FieldSet \cup {"kind", "timestamp", "location", "source_status"} |->
        IF a \in DOMAIN owned THEN owned[a]
        ELSE IF a = "kind" THEN (IF is_snapshot THEN "MobilitySnapshot" ELSE "object")
        ELSE IF a = "timestamp" THEN DateTime(t)
        ELSE IF a = "location" THEN "upstream"
        ELSE IF a = "source_status" THEN [n \in {"upstream"} |-> "live"]
        ELSE IF is_snapshot /\ a # "tours" THEN NoneV
        ELSE Absent]

OwnedChoices(i) ==
    UNION {{g \in [S -> UNION {SlotValues(f, i) : f \in S}] :
                \A f \in S : g[f] \in SlotValues(f, i)} : S \in OwnedSets}

\* the slots in which a fetch result holds a value (not None, not missing)
Filled(result) ==
    IF result = NoneV THEN {}
    ELSE {f \in FieldSet : result[f] \notin {NoneV, Absent}}

\* everything the i-th fetch of a build can return at time t
FetchResults(i, t) ==
    {NoneV, PartialResult(FALSE, EmptyDict, t)}
        \cup {PartialResult(TRUE, g, t) : g \in OwnedChoices(i)}

---------------------------------------------------------------------------
(* backend/services/snapshot_service.py *)

\* the radius_km build_snapshot passes to build_traffic_metrics
DefaultRadiusKm == 1

\* the call expression f(<explicit keywords>, **kwargs), lines 64 (and
\* cache.py:69, with no explicit keyword): a keyword given twice is a TypeError
\* raised before f is entered; otherwise f receives both sets of keywords
KeywordCall(explicit, kwargs) ==
    IF DOMAIN explicit \cap DOMAIN kwargs # {}
    THEN [entered |-> FALSE, received |-> EmptyDict]
    ELSE [entered |-> TRUE,
          received |-> [k \in DOMAIN explicit \cup DOMAIN kwargs |->
                           IF k \in DOMAIN explicit THEN explicit[k] ELSE kwargs[k]]]

\* SnapshotService._iter_adapters_with_kwargs: the (adapter, kwargs) pairs
_iter_adapters_with_kwargs ==
    IF _adapter_specs # <<>>
    THEN [i \in 1..Len(_adapter_specs) |->
              <<_adapter_specs[i].adapter, _adapter_specs[i].kwargs>>]
    ELSE [i \in 1..Len(_adapters) |-> <<_adapters[i], EmptyDict>>]

\* _safe_source_name as it would be if the fallback were a fixed name
_safe_source_name_unknown(adapter) ==
    IF adapter.name_raises THEN "unknown" ELSE adapter.source_name

\* SnapshotService._safe_source_name
_safe_source_name(adapter) ==
    IF adapter.name_raises THEN adapter.cls ELSE adapter.source_name

\* _merge as it would be if it copied every slot, None included
_merge_overwrite(target, partial_) ==
    IF partial_ = NoneV THEN target
    ELSE [a \in DOMAIN target |->
            IF a \in FieldSet THEN GetAttr(partial_, a) ELSE target[a]]

\* _merge as it would be if a slot already filled were kept
_merge_keep_first(target, partial_) ==
    IF partial_ = NoneV THEN target
    ELSE [a \in DOMAIN target |->
            IF a \in FieldSet /\ GetAttr(partial_, a) # NoneV
               /\ target[a] \in {NoneV, Absent}
            THEN partial_[a] ELSE target[a]]

\* _merge as it would be if two incident lists were joined instead of replaced
_merge_concat(target, partial_) ==
    IF partial_ = NoneV THEN target
    ELSE [a \in DOMAIN target |->
            IF a \in FieldSet /\ GetAttr(partial_, a) # NoneV
            THEN (IF a = "traffic" /\ target[a].kind = "list" /\ partial_[a].kind = "list"
                  THEN ListV(target[a].items \o partial_[a].items)
                  ELSE partial_[a])
            ELSE target[a]]

\* _merge as it would be if it copied every attribute the partial result has
_merge_every_attribute(target, partial_) ==
    IF partial_ = NoneV THEN target
    ELSE [a \in DOMAIN target |->
            IF a \in {"timestamp", "location", "source_status"}
               \/ (a \in FieldSet /\ GetAttr(partial_, a) # NoneV)
            THEN partial_[a] ELSE target[a]]

\* SnapshotService._merge: the target after the call
_merge(target, partial_) ==
    IF partial_ = NoneV THEN target
    ELSE [a \in DOMAIN target |->
            IF a \in FieldSet /\ GetAttr(partial_, a) # NoneV
            THEN partial_[a] ELSE target[a]]

\* _apply_analytics as it would be if the air-quality level were written
\* over the airquality slot instead of being attached to the object in it
_apply_analytics_level_in_slot(s, air_status) ==
    LET tm == IF s.traffic.kind = "list"
              THEN build_traffic_metrics(s.traffic, DefaultRadiusKm)
              ELSE [raised |-> FALSE, value |-> s.traffic]
        called == IF s.traffic.kind = "list"
                  THEN <<[incidents |-> s.traffic, radius_km |-> DefaultRadiusKm]>>
                  ELSE <<>>
    IN IF tm.raised
       THEN [raised |-> TRUE, snapshot |-> s, airquality_status |-> air_status,
             metrics_calls |-> called]
       ELSE LET s2 == [s EXCEPT !.traffic = tm.value]
                level == IF s2.airquality # NoneV
                         THEN overall_air_quality_level(s2.airquality)
                         ELSE [raised |-> TRUE, value |-> "None"]
            IN [raised |-> FALSE,
                snapshot |-> IF level.raised THEN s2
                             ELSE [s2 EXCEPT !.airquality =
                                       [kind |-> "str", v |-> level.value]],
                airquality_status |-> air_status, metrics_calls |-> called]

\* _apply_analytics as it would be with another radius (2 km) for the metrics
_apply_analytics_wide_radius(s, air_status) ==
    LET tm == IF s.traffic.kind = "list"
              THEN build_traffic_metrics(s.traffic, 2 * DefaultRadiusKm)
              ELSE [raised |-> FALSE, value |-> s.traffic]
        called == IF s.traffic.kind = "list"
                  THEN <<[incidents |-> s.traffic, radius_km |-> 2 * DefaultRadiusKm]>>
                  ELSE <<>>
    IN IF tm.raised
       THEN [raised |-> TRUE, snapshot |-> s, airquality_status |-> air_status,
             metrics_calls |-> called]
       ELSE [raised |-> FALSE, snapshot |-> [s EXCEPT !.traffic = tm.value],
             metrics_calls |-> called, airquality_status |-> air_status]

\* SnapshotService._apply_analytics: [raised, snapshot, airquality_status,
\* metrics_calls]; metrics_calls lists the build_traffic_metrics calls made
_apply_analytics(s, air_status) ==
    LET tm == IF s.traffic.kind = "list"
              THEN build_traffic_metrics(s.traffic, DefaultRadiusKm)
              ELSE [raised |-> FALSE, value |-> s.traffic]
        called == IF s.traffic.kind = "list"
                  THEN <<[incidents |-> s.traffic, radius_km |-> DefaultRadiusKm]>>
                  ELSE <<>>
    IN IF tm.raised
       THEN [raised |-> TRUE, snapshot |-> s, airquality_status |-> air_status,
             metrics_calls |-> called]
       ELSE LET s2 == [s EXCEPT !.traffic = tm.value]
                level == IF s2.airquality # NoneV
                         THEN overall_air_quality_level(s2.airquality)
                         ELSE [raised |-> TRUE, value |-> "None"]
            IN [raised |-> FALSE, snapshot |-> s2, metrics_calls |-> called,
                airquality_status |->
                    IF s2.airquality # NoneV /\ ~level.raised /\ s2.airquality.has_status
                    THEN [kind |-> "str", v |-> level.value]
                    ELSE air_status]

\* build_snapshot, lines 54-58: the snapshot is created with the start time
BuildStart ==
    /\ pc = "idle"
    /\ \E loc \in Locations :
         /\ location' = loc
         /\ snapshot' = MobilitySnapshot(DateTime(clock), loc, EmptyDict)
    /\ clock' = clock + 1
    /\ pc' = "loop"
    /\ idx' = 1
    /\ UNCHANGED <<adapters, adapter_specs, _adapters, _adapter_specs, partial, airquality_status, calls,
                   last_nonempty, metrics_calls, cvars, mvars, tvars>>

\* one iteration of the loop, lines 60-66: fetch is entered and returns,
\* merge, status live
FetchReturns ==
    /\ pc = "loop"
    /\ idx <= Len(_iter_adapters_with_kwargs)
    /\ LET adapter == _iter_adapters_with_kwargs[idx][1]
           kwargs == _iter_adapters_with_kwargs[idx][2]
           name == _safe_source_name(adapter)
           call == KeywordCall(LocationKwargs(location), kwargs)
       IN \E result \in FetchResults(idx, clock) :
            /\ call.entered
            /\ partial' = result
            /\ snapshot' = [_merge(snapshot, result) EXCEPT
                               !.source_status = DictSet(@, name, "live")]
            /\ calls' = Append(calls, [adapter |-> adapter, entered |-> TRUE,
                                       received |-> call.received,
                                       outcome |-> "returned",
                                       filled |-> Filled(result)])
            /\ last_nonempty' =
                 [f \in FieldSet |->
                    IF f \in Filled(result) THEN result[f] ELSE last_nonempty[f]]
    /\ clock' = clock + 1
    /\ idx' = idx + 1
    /\ UNCHANGED <<adapters, adapter_specs, _adapters, _adapter_specs, pc, airquality_status, location,
                   metrics_calls, cvars, mvars, tvars>>

\* the failure branch as it would be if it were routed through the fallback
\* cache: a cached payload is merged and the status is "cached"
FetchRaisesViaCache ==
    /\ pc = "loop"
    /\ idx <= Len(_iter_adapters_with_kwargs)
    /\ LET adapter == _iter_adapters_with_kwargs[idx][1]
           kwargs == _iter_adapters_with_kwargs[idx][2]
           name == _safe_source_name(adapter)
           call == KeywordCall(LocationKwargs(location), kwargs)
       IN /\ snapshot' = IF name \in DOMAIN _cache
                         THEN [_merge(snapshot, _cache[name]) EXCEPT
                                  !.source_status = DictSet(@, name, "cached")]
                         ELSE [snapshot EXCEPT
                                  !.source_status = DictSet(@, name, "failed")]
          /\ calls' = Append(calls, [adapter |-> adapter, entered |-> call.entered,
                                     received |-> call.received,
                                     outcome |-> "raised",
                                     filled |-> {}])
    /\ clock' = clock + 1
    /\ idx' = idx + 1
    /\ UNCHANGED <<adapters, adapter_specs, _adapters, _adapter_specs, pc, partial, airquality_status,
                   location, last_nonempty, metrics_calls, cvars, mvars, tvars>>

\* one iteration of the loop, lines 60-69: the call expression of line 64 or
\* fetch itself raises, status failed
FetchRaises ==
    /\ pc = "loop"
    /\ idx <= Len(_iter_adapters_with_kwargs)
    /\ LET adapter == _iter_adapters_with_kwargs[idx][1]
           kwargs == _iter_adapters_with_kwargs[idx][2]
           name == _safe_source_name(adapter)
           call == KeywordCall(LocationKwargs(location), kwargs)
       IN /\ snapshot' = [snapshot EXCEPT !.source_status = DictSet(@, name, "failed")]
          /\ calls' = Append(calls, [adapter |-> adapter, entered |-> call.entered,
                                     received |-> call.received,
                                     outcome |-> "raised",
                                     filled |-> {}])
    /\ clock' = clock + 1
    /\ idx' = idx + 1
    /\ UNCHANGED <<adapters, adapter_specs, _adapters, _adapter_specs, pc, partial, airquality_status,
                   location, last_nonempty, metrics_calls, cvars, mvars, tvars>>

\* lines 71-74: the analytics run on the merged snapshot, then it is returned;
\* an exception that leaves _apply_analytics leaves build_snapshot
ApplyAnalytics ==
    /\ pc = "loop"
    /\ idx > Len(_iter_adapters_with_kwargs)
    /\ LET r == _apply_analytics(snapshot, airquality_status)
       IN /\ pc' = IF r.raised THEN "raised" ELSE "done"
          /\ snapshot' = r.snapshot
          /\ airquality_status' = r.airquality_status
          /\ metrics_calls' = metrics_calls \o r.metrics_calls
    /\ UNCHANGED <<adapters, adapter_specs, _adapters, _adapter_specs, idx, partial, location, calls,
                   last_nonempty, clock, cvars, mvars, tvars>>

\* the cache and the stand-alone merge are not used by a build
IdleCache ==
    /\ _cache = EmptyDict /\ _timestamps = EmptyDict /\ _db = FALSE
    /\ firestore = EmptyDict /\ stored = EmptyDict /\ superseded = EmptyDict
    /\ ret = [op |-> "init"]
    /\ waiting = {}
    /\ started = 0
    /\ retired = <<>>

IdleMerge ==
    /\ m_target = NoneV /\ m_partial = NoneV /\ m_once = NoneV /\ m_count = 0

\* the threads that call one AdapterCache concurrently, and a thread in no call
Threads == {1, 2}
IdleThread ==
    [op |-> "none", pc |-> "idle", name |-> "", result |-> NoneV, now |-> NoneV,
     loaded |-> NoneV, docs |-> {}, out |-> NoneV, seen |-> NoneV]
IdleThreads == threads = [t \in Threads |-> IdleThread]

\* build_snapshot has not been called yet
ServiceFresh ==
    /\ adapters = NoneV /\ adapter_specs = NoneV
    /\ pc = "idle"
    /\ idx = 0
    /\ snapshot = NoneV
    /\ partial = Absent
    /\ airquality_status = NoneV
    /\ location = "dublin"
    /\ calls = <<>>
    /\ last_nonempty = [f \in FieldSet |-> Absent]
    /\ metrics_calls = <<>>

\* what a caller can pass as `adapters` and as `adapter_specs`
\* (None, or a list that may be empty)
AdapterArgs ==
    {NoneV} \cup {ListV(q) : q \in {<<>>} \cup NonEmptySeqs(Adapters, MaxRegs)}
SpecArgs ==
    {NoneV} \cup {ListV(q) : q \in {<<>>} \cup NonEmptySeqs(AdapterCallSpecs, MaxRegs)}

\* list(x) if x else []
ListOrEmpty(x) == IF x = NoneV THEN <<>> ELSE x.items

\* __init__ as it would be if adapter_specs silently took precedence
__init__specs_win(adapters_, adapter_specs_) ==
    LET a == ListOrEmpty(adapters_)
        s == ListOrEmpty(adapter_specs_)
    IN [raised |-> a = <<>> /\ s = <<>>, _adapters |-> a, _adapter_specs |-> s]

\* SnapshotService.__init__: [raised, _adapters, _adapter_specs]; the two
\* attributes are assigned before the checks
__init__(adapters_, adapter_specs_) ==
    LET a == ListOrEmpty(adapters_)
        s == ListOrEmpty(adapter_specs_)
    IN [raised |-> (a # <<>> /\ s # <<>>) \/ (a = <<>> /\ s = <<>>),
        _adapters |-> a, _adapter_specs |-> s]

\* SnapshotService.__init__ returned: exactly one registration style, not empty
ServiceConstructed ==
    /\ \E a \in AdapterArgs, s \in SpecArgs :
         /\ ~__init__(a, s).raised
         /\ _adapters = __init__(a, s)._adapters
         /\ _adapter_specs = __init__(a, s)._adapter_specs
    /\ ServiceFresh

Init == ServiceConstructed /\ clock = 0 /\ IdleCache /\ IdleMerge /\ IdleThreads

Next == BuildStart \/ FetchReturns \/ FetchRaises \/ ApplyAnalytics

Spec == Init /\ [][Next]_vars


---------------------------------------------------------------------------
(* backend/fallback/cache.py: the durable layer *)

\* base64.b64encode(pickle.dumps(snapshot)).decode("utf-8")
Blob(payload) == [kind |-> "blob", of |-> payload]
\* a stored string that is no pickle
Garbage == [kind |-> "garbage"]
\* now.isoformat() and datetime.fromisoformat
IsoFormat(dt) == [kind |-> "iso", t |-> dt.t]
FromIsoFormat(s) == DateTime(s.t)

\* a document of the collection; a key the document lacks is Absent
Document(data, timestamp) == [data |-> data, timestamp |-> timestamp]

\* how the Firestore client behaves during one operation of the cache
DbModes == IF _db THEN {"ok", "collection_raises", "op_raises"} ELSE {"ok"}

\* the source names the cache is used with
CacheNames == {"A", "B"}
CacheAdapters == {AdapterA, AdapterB}

\* what adapter.fetch can return to the cache at time t
FetchPayloads(t) == {NoneV, Obj(t)}

\* the keyword arguments fetch_with_fallback is called with for an adapter: a
\* location plus the parameter bag of the adapter's registration
CacheKwargs(adapter) ==
    DictSet((CHOOSE c \in AdapterCallSpecs : c.adapter = adapter).kwargs,
            "location", [kind |-> "str", v |-> "dublin"])

\* documents found in the collection when the process starts: written by an
\* earlier process (a payload or None), or not written by this code at all
EarlierDocs ==
    {Document(Blob(Obj(0)), IsoFormat(DateTime(0))),
     Document(Blob(NoneV), IsoFormat(DateTime(0)))}
ForeignDocs ==
    {Document(Blob(Obj(0)), Absent),
     Document(Garbage, IsoFormat(DateTime(0)))}

\* the source names that may have a document when the process starts
StartNames == {"A"}


\* _load_from_firestore, lines 114-128, once collection.document(name).get()
\* has answered with doc (Absent: no such document): [raised, value, cache,
\* timestamps]
_load_from_document(name, doc, cache, timestamps) ==
    LET miss == [raised |-> FALSE, value |-> NoneV, cache |-> cache,
                 timestamps |-> timestamps]
    IN IF doc = Absent THEN miss
       ELSE IF doc.data.kind # "blob" THEN miss
       ELSE IF doc.timestamp.kind # "iso"
       THEN [miss EXCEPT !.cache = DictSet(cache, name, doc.data.of)]
       ELSE [raised |-> FALSE, value |-> doc.data.of,
             cache |-> DictSet(cache, name, doc.data.of),
             timestamps |-> DictSet(timestamps, name, FromIsoFormat(doc.timestamp))]

\* AdapterCache._load_from_firestore when no other call runs while it waits
\* for the document: [raised, value, cache, timestamps]
_load_from_firestore(name, mode, cache, timestamps) ==
    LET miss == [raised |-> FALSE, value |-> NoneV, cache |-> cache,
                 timestamps |-> timestamps]
    IN IF ~_db THEN miss
       ELSE IF mode = "collection_raises" THEN [miss EXCEPT !.raised = TRUE]
       ELSE IF mode = "op_raises" THEN miss
       ELSE _load_from_document(name,
                                IF name \in DOMAIN firestore THEN firestore[name]
                                ELSE Absent,
                                cache, timestamps)

\* AdapterCache._store: [raised, cache, timestamps, firestore]
_store(name, snapshot_, mode, now) ==
    LET written == [raised |-> FALSE,
                    cache |-> DictSet(_cache, name, snapshot_),
                    timestamps |-> DictSet(_timestamps, name, now),
                    firestore |-> firestore]
    IN IF ~_db THEN written
       ELSE IF mode = "collection_raises" THEN [written EXCEPT !.raised = TRUE]
       ELSE IF mode = "op_raises" THEN written
       ELSE [written EXCEPT
                !.firestore = DictSet(firestore, name,
                                      Document(Blob(snapshot_), IsoFormat(now)))]

\* _fallback as it would be if a memory hit were reported as live
_fallback_live(name, mode, cache, timestamps) ==
    IF name \in DOMAIN cache
    THEN [raised |-> FALSE, payload |-> cache[name], status |-> "live",
          source |-> "memory", cache |-> cache, timestamps |-> timestamps]
    ELSE [raised |-> FALSE, payload |-> NoneV, status |-> "failed",
          source |-> "none", cache |-> cache, timestamps |-> timestamps]

\* AdapterCache._fallback: [raised, payload, status, source, cache, timestamps]
_fallback(name, mode, cache, timestamps) ==
    IF name \in DOMAIN cache
    THEN [raised |-> FALSE, payload |-> cache[name], status |-> "cached",
          source |-> "memory", cache |-> cache, timestamps |-> timestamps]
    ELSE LET loaded == _load_from_firestore(name, mode, cache, timestamps)
         IN IF loaded.raised
            THEN [raised |-> TRUE, payload |-> NoneV, status |-> "None",
                  source |-> "none", cache |-> loaded.cache,
                  timestamps |-> loaded.timestamps]
            ELSE IF loaded.value # NoneV
            THEN [raised |-> FALSE, payload |-> loaded.value, status |-> "cached",
                  source |-> "firestore", cache |-> loaded.cache,
                  timestamps |-> loaded.timestamps]
            ELSE [raised |-> FALSE, payload |-> NoneV, status |-> "failed",
                  source |-> "none", cache |-> loaded.cache,
                  timestamps |-> loaded.timestamps]

\* AdapterCache.has_cached: [raised, value, cache, timestamps]
has_cached(name, mode) ==
    IF name \in DOMAIN _cache
    THEN [raised |-> FALSE, value |-> TRUE, cache |-> _cache,
          timestamps |-> _timestamps]
    ELSE LET loaded == _load_from_firestore(name, mode, _cache, _timestamps)
         IN [raised |-> loaded.raised,
             value |-> ~loaded.raised /\ loaded.value # NoneV,
             cache |-> loaded.cache, timestamps |-> loaded.timestamps]

\* AdapterCache.last_success_time: [raised, time, cache, timestamps]
last_success_time(name, mode) ==
    IF name \in DOMAIN _timestamps
    THEN [raised |-> FALSE, time |-> _timestamps[name], cache |-> _cache,
          timestamps |-> _timestamps]
    ELSE LET loaded == _load_from_firestore(name, mode, _cache, _timestamps)
         IN [raised |-> loaded.raised,
             time |-> IF ~loaded.raised /\ name \in DOMAIN loaded.timestamps
                      THEN loaded.timestamps[name] ELSE NoneV,
             cache |-> loaded.cache, timestamps |-> loaded.timestamps]

\* the record of a cache operation: what was asked, what the adapter did, what
\* the layers held when the call started, and what the call returned; kwargs
\* are the keyword arguments of the call, fetch_kwargs those adapter.fetch
\* received; waited tells that the call made a request to the database, alone
\* that no other call ran, and the instance was not replaced, between its
\* start and its return, replaced that the instance was replaced meanwhile
Returned(op, name, mode) ==
    [op |-> op, name |-> name, mode |-> mode, raised |-> FALSE,
     fetch |-> "none", fetched |-> NoneV,
     mem_hit |-> name \in DOMAIN _cache,
     doc |-> IF _db /\ name \in DOMAIN firestore THEN firestore[name] ELSE Absent,
     payload |-> NoneV, status |-> "None", source |-> "none",
     value |-> FALSE, time |-> NoneV,
     kwargs |-> EmptyDict, fetch_kwargs |-> Absent, waited |-> FALSE,
     alone |-> waiting = {}, replaced |-> FALSE]

\* ret after a step in which no call returned
NoCallReturned == [op |-> "init"]

\* A call is followed from its start through each request it makes to the
\* database.  A request is sent by the caller, acted on by the server, and
\* answered to the caller; the class holds no lock meanwhile, so the steps of
\* other calls fall between these three.  A start action runs the call up to
\* its first request, or to its return when it makes none.

\* how obtaining the collection goes for a call that starts: _get_collection,
\* lines 47-51, is a local call
StartModes == IF _db THEN {"ok", "collection_raises"} ELSE {"ok"}

\* a request the call recorded in r has just sent; inst tells the instance the
\* call runs on: 0 is the current one, i > 0 the one whose memory is retired[i]
Request(call, r, now, target) ==
    [id |-> started + 1, call |-> call, phase |-> "sent", r |-> r, now |-> now,
     target |-> target, answer |-> Absent, failed |-> FALSE, todo |-> {},
     inst |-> 0]

\* the calls inside a request, once another call has started beside them
Others == {[c EXCEPT !.r.alone = FALSE] : c \in waiting}

\* the request c has moved on to d
Moved(c, d) == (waiting \ {c}) \cup {d}

\* the error of a request, as the returned record names it
RequestMode(c) == IF c.failed THEN "op_raises" ELSE "ok"

\* self._cache and self._timestamps of the instance call c runs on
MemoryOf(c) ==
    IF c.inst = 0 THEN [cache |-> _cache, timestamps |-> _timestamps]
    ELSE retired[c.inst]

\* call c returns and leaves `memory` in its instance; a replaced instance
\* whose last call returns is referenced by nothing any more
Returning(c, memory) ==
    LET last == c.inst > 0 /\ \A d \in waiting \ {c} : d.inst # c.inst
    IN /\ waiting' = {IF last /\ d.inst > c.inst THEN [d EXCEPT !.inst = @ - 1] ELSE d :
                        d \in waiting \ {c}}
       /\ retired' = IF c.inst = 0 THEN retired
                     ELSE IF last
                     THEN [i \in 1..(Len(retired) - 1) |->
                              IF i < c.inst THEN retired[i] ELSE retired[i + 1]]
                     ELSE [retired EXCEPT ![c.inst] = memory]
       /\ _cache' = IF c.inst = 0 THEN memory.cache ELSE _cache
       /\ _timestamps' = IF c.inst = 0 THEN memory.timestamps ELSE _timestamps

\* fetch_with_fallback, adapter.fetch returns: lines 66-70 and 77-82, then the
\* request of line 86, or the return of line 71 without a database, or lines
\* 72-73 when the collection cannot be obtained
CacheFetchReturns ==
    /\ pc = "cache"
    /\ clock <= MaxClock
    /\ started < MaxCalls
    /\ Cardinality(waiting) < MaxThreads
    /\ \E adapter \in CacheAdapters, mode \in StartModes, result \in FetchPayloads(clock) :
         LET name == adapter.source_name
             st == _store(name, result, mode, DateTime(clock))
             fb == _fallback(name, mode, st.cache, st.timestamps)
             kwargs == CacheKwargs(adapter)
             r == [Returned("fetch_with_fallback", name, mode) EXCEPT
                     !.fetch = "returned", !.fetched = result,
                     !.kwargs = kwargs,
                     !.fetch_kwargs = KeywordCall(EmptyDict, kwargs).received]
         IN /\ _cache' = st.cache
            /\ _timestamps' = st.timestamps
            /\ stored' = DictSet(stored, name, result)
            /\ superseded' = DictSet(superseded, name,
                                     IF name \in DOMAIN stored
                                     THEN superseded[name] \cup {stored[name]} ELSE {})
            /\ IF _db /\ mode = "ok"
               THEN /\ waiting' = Others \cup {Request("set", r, DateTime(clock), name)}
                    /\ ret' = NoCallReturned
               ELSE /\ waiting' = Others
                    /\ ret' = IF st.raised
                              THEN [r EXCEPT !.raised = fb.raised, !.payload = fb.payload,
                                             !.status = fb.status, !.source = fb.source]
                              ELSE [r EXCEPT !.payload = result, !.status = "live",
                                             !.source = "fetch"]
    /\ clock' = clock + 1
    /\ started' = started + 1
    /\ UNCHANGED <<svars, _db, retired, firestore, mvars, tvars>>

\* the server acts on set(): the document is written with the payload and the
\* time the call took at line 77, or the request fails
SetActs ==
    /\ pc = "cache"
    /\ \E c \in waiting, failed \in BOOLEAN :
         /\ c.call = "set" /\ c.phase = "sent"
         /\ firestore' = IF failed THEN firestore
                         ELSE DictSet(firestore, c.target,
                                      Document(Blob(c.r.fetched), IsoFormat(c.now)))
         /\ waiting' = Moved(c, [c EXCEPT !.phase = "acted", !.failed = failed])
    /\ ret' = NoCallReturned
    /\ UNCHANGED <<svars, clock, _cache, _timestamps, _db, retired, stored, superseded, started,
                   mvars, tvars>>

\* set() answers (an error is swallowed, lines 93-94) and line 71 returns
SetAnswers ==
    /\ pc = "cache"
    /\ \E c \in waiting :
         /\ c.call = "set" /\ c.phase = "acted"
         /\ ret' = [c.r EXCEPT !.mode = RequestMode(c), !.waited = TRUE,
                               !.payload = c.r.fetched,
                               !.status = "live", !.source = "fetch"]
         /\ Returning(c, MemoryOf(c))
    /\ UNCHANGED <<svars, clock, _db, firestore, stored, superseded, started, mvars, tvars>>

\* a lookup (lines 99-103, 132-136, 140-145) that misses memory and has a
\* collection sends get(), lines 112-113; otherwise it returns at once
Lookup(op, name, mode, kwargs, whole) ==
    LET r == [Returned(op, name, mode) EXCEPT
                !.fetch = IF op = "fetch_with_fallback" THEN "raised" ELSE "none",
                !.kwargs = kwargs,
                !.fetch_kwargs = IF op = "fetch_with_fallback"
                                 THEN KeywordCall(EmptyDict, kwargs).received
                                 ELSE Absent]
        hit == IF op = "last_success_time" THEN name \in DOMAIN _timestamps
               ELSE name \in DOMAIN _cache
    IN /\ UNCHANGED <<_cache, _timestamps, firestore, stored, superseded>>
       /\ IF _db /\ mode = "ok" /\ ~hit
          THEN /\ waiting' = Others \cup {Request("get", r, NoneV, name)}
               /\ ret' = NoCallReturned
          ELSE /\ waiting' = Others
               /\ ret' = [r EXCEPT !.raised = whole.raised, !.payload = whole.payload,
                                   !.status = whole.status, !.source = whole.source,
                                   !.value = whole.value, !.time = whole.time]

\* fetch_with_fallback, adapter.fetch raises: lines 66-69 and 72-73, up to the
\* request of line 113 or to the return
CacheFetchRaises ==
    /\ pc = "cache"
    /\ started < MaxCalls
    /\ Cardinality(waiting) < MaxThreads
    /\ \E adapter \in CacheAdapters, mode \in StartModes :
         LET name == adapter.source_name
             fb == _fallback(name, mode, _cache, _timestamps)
         IN Lookup("fetch_with_fallback", name, mode, CacheKwargs(adapter),
                   [raised |-> fb.raised, payload |-> fb.payload, status |-> fb.status,
                    source |-> fb.source, value |-> FALSE, time |-> NoneV])
    /\ started' = started + 1
    /\ UNCHANGED <<svars, clock, _db, retired, mvars, tvars>>

\* fetch_with_fallback for an adapter whose source_name() raises: line 66
CacheFetchUnnamed ==
    /\ pc = "cache"
    /\ started < MaxCalls
    /\ Cardinality(waiting) < MaxThreads
    /\ ret' = [Returned("fetch_with_fallback", UnnamedAdapter.cls, "ok") EXCEPT
                 !.raised = TRUE]
    /\ waiting' = Others
    /\ started' = started + 1
    /\ UNCHANGED <<svars, clock, _cache, _timestamps, _db, retired, firestore, stored, superseded,
                   mvars, tvars>>

\* has_cached, up to the request of line 113 or to the return
HasCached ==
    /\ pc = "cache"
    /\ started < MaxCalls
    /\ Cardinality(waiting) < MaxThreads
    /\ \E name \in CacheNames, mode \in StartModes :
         LET h == has_cached(name, mode)
         IN Lookup("has_cached", name, mode, EmptyDict,
                   [raised |-> h.raised, payload |-> NoneV, status |-> "None",
                    source |-> "none", value |-> h.value, time |-> NoneV])
    /\ started' = started + 1
    /\ UNCHANGED <<svars, clock, _db, retired, mvars, tvars>>

\* last_success_time, up to the request of line 113 or to the return
LastSuccessTime ==
    /\ pc = "cache"
    /\ started < MaxCalls
    /\ Cardinality(waiting) < MaxThreads
    /\ \E name \in CacheNames, mode \in StartModes :
         LET l == last_success_time(name, mode)
         IN Lookup("last_success_time", name, mode, EmptyDict,
                   [raised |-> l.raised, payload |-> NoneV, status |-> "None",
                    source |-> "none", value |-> FALSE, time |-> l.time])
    /\ started' = started + 1
    /\ UNCHANGED <<svars, clock, _db, retired, mvars, tvars>>

\* the server acts on get(): it reads the document as it is now, or the
\* request fails
GetActs ==
    /\ pc = "cache"
    /\ \E c \in waiting, failed \in BOOLEAN :
         /\ c.call = "get" /\ c.phase = "sent"
         /\ waiting' = Moved(c, [c EXCEPT !.phase = "acted", !.failed = failed,
                                          !.answer = IF ~failed /\ c.target \in DOMAIN firestore
                                                     THEN firestore[c.target]
                                                     ELSE Absent])
    /\ ret' = NoCallReturned
    /\ UNCHANGED <<svars, clock, _cache, _timestamps, _db, retired, firestore, stored, superseded,
                   started, mvars, tvars>>

\* get() answers: lines 114-128 run on the memory of the call's instance as it
\* is now, with the document the server read, and the lookup returns (lines
\* 102-108, 135-136, 143-145)
GetAnswers ==
    /\ pc = "cache"
    /\ \E c \in waiting :
         /\ c.call = "get" /\ c.phase = "acted"
         /\ LET r == [c.r EXCEPT !.mode = RequestMode(c), !.waited = TRUE]
                loaded == _load_from_document(r.name, c.answer, MemoryOf(c).cache,
                                              MemoryOf(c).timestamps)
            IN /\ Returning(c, [cache |-> loaded.cache, timestamps |-> loaded.timestamps])
               /\ ret' = IF r.op = "fetch_with_fallback"
                         THEN IF loaded.value # NoneV
                              THEN [r EXCEPT !.payload = loaded.value,
                                             !.status = "cached", !.source = "firestore"]
                              ELSE [r EXCEPT !.status = "failed"]
                         ELSE IF r.op = "has_cached"
                         THEN [r EXCEPT !.value = (loaded.value # NoneV)]
                         ELSE [r EXCEPT !.time = IF r.name \in DOMAIN loaded.timestamps
                                                 THEN loaded.timestamps[r.name]
                                                 ELSE NoneV]
    /\ UNCHANGED <<svars, clock, _db, firestore, stored, superseded, started, mvars, tvars>>

\* clear(adapter_name): lines 152-155 and 161-164, then the request of line
\* 166, or the return without a database, or the error of line 163
Clear ==
    /\ pc = "cache"
    /\ started < MaxCalls
    /\ Cardinality(waiting) < MaxThreads
    /\ \E name \in CacheNames, mode \in StartModes :
         LET r == Returned("clear", name, mode)
         IN /\ _cache' = DictPop(_cache, name)
            /\ _timestamps' = DictPop(_timestamps, name)
            /\ stored' = DictPop(stored, name)
            /\ superseded' = DictPop(superseded, name)
            /\ IF _db /\ mode = "ok"
               THEN /\ waiting' = Others \cup {Request("delete", r, NoneV, name)}
                    /\ ret' = NoCallReturned
               ELSE /\ waiting' = Others
                    /\ ret' = [r EXCEPT !.raised = (mode = "collection_raises")]
    /\ started' = started + 1
    /\ UNCHANGED <<svars, clock, _db, retired, firestore, mvars, tvars>>

\* the arguments of clear that are not truthy: None (written "*") and ""
FalsyNames == {"*", ""}

\* clear(): lines 156-159 and 170-173, then the request of line 175, or the
\* return without a database, or the error of line 172; `if adapter_name:`
\* sends None and "" here
ClearAll ==
    /\ pc = "cache"
    /\ started < MaxCalls
    /\ Cardinality(waiting) < MaxThreads
    /\ \E adapter_name \in FalsyNames, mode \in StartModes :
         LET r == Returned("clear", adapter_name, mode)
         IN /\ _cache' = EmptyDict
            /\ _timestamps' = EmptyDict
            /\ stored' = EmptyDict
            /\ superseded' = EmptyDict
            /\ IF _db /\ mode = "ok"
               THEN /\ waiting' = Others \cup {Request("stream", r, NoneV, adapter_name)}
                    /\ ret' = NoCallReturned
               ELSE /\ waiting' = Others
                    /\ ret' = [r EXCEPT !.raised = (mode = "collection_raises")]
    /\ started' = started + 1
    /\ UNCHANGED <<svars, clock, _db, retired, firestore, mvars, tvars>>

\* the server acts on stream(): it lists the documents there are now, or the
\* request fails
StreamActs ==
    /\ pc = "cache"
    /\ \E c \in waiting, failed \in BOOLEAN :
         /\ c.call = "stream" /\ c.phase = "sent"
         /\ waiting' = Moved(c, [c EXCEPT !.phase = "acted", !.failed = failed,
                                          !.todo = IF failed THEN {} ELSE DOMAIN firestore])
    /\ ret' = NoCallReturned
    /\ UNCHANGED <<svars, clock, _cache, _timestamps, _db, retired, firestore, stored, superseded,
                   started, mvars, tvars>>

\* the rest of the loop of lines 176-177 after an answer: the next delete is
\* sent, or clear returns when nothing is left or the request failed (the
\* error is swallowed, lines 167-168 and 178-179)
NextDelete(c) ==
    IF c.failed \/ c.todo = {}
    THEN /\ ret' = [c.r EXCEPT !.mode = RequestMode(c), !.waited = TRUE]
         /\ Returning(c, MemoryOf(c))
    ELSE /\ ret' = NoCallReturned
         /\ UNCHANGED <<_cache, _timestamps, retired>>
         /\ \E n \in c.todo :
              waiting' = Moved(c, [c EXCEPT !.call = "delete", !.phase = "sent",
                                            !.target = n, !.todo = c.todo \ {n}])

\* stream() answers
StreamAnswers ==
    /\ pc = "cache"
    /\ \E c \in waiting :
         /\ c.call = "stream" /\ c.phase = "acted"
         /\ NextDelete(c)
    /\ UNCHANGED <<svars, clock, _db, firestore, stored, superseded, started, mvars, tvars>>

\* the server acts on delete(): the document is gone, or the request fails
DeleteActs ==
    /\ pc = "cache"
    /\ \E c \in waiting, failed \in BOOLEAN :
         /\ c.call = "delete" /\ c.phase = "sent"
         /\ firestore' = IF failed THEN firestore ELSE DictPop(firestore, c.target)
         /\ waiting' = Moved(c, [c EXCEPT !.phase = "acted", !.failed = failed])
    /\ ret' = NoCallReturned
    /\ UNCHANGED <<svars, clock, _cache, _timestamps, _db, retired, stored, superseded, started,
                   mvars, tvars>>

\* delete() answers
DeleteAnswers ==
    /\ pc = "cache"
    /\ \E c \in waiting :
         /\ c.call = "delete" /\ c.phase = "acted"
         /\ NextDelete(c)
    /\ UNCHANGED <<svars, clock, _db, firestore, stored, superseded, started, mvars, tvars>>

\* AdapterCache(db) is constructed again over the same collection, lines
\* 43-45, and replaces the instance in use.  The calls that are running on the
\* replaced instance go on: their requests are served and they return, on the
\* memory of their own instance.
Restart ==
    /\ pc = "cache"
    /\ LET running == \E c \in waiting : c.inst = 0
       IN /\ retired' = IF running
                        THEN <<[cache |-> _cache, timestamps |-> _timestamps]>> \o retired
                        ELSE retired
          /\ waiting' = {[c EXCEPT !.inst = IF running THEN @ + 1 ELSE @,
                                   !.r.alone = FALSE,
                                   !.r.replaced = TRUE] : c \in waiting}
    /\ _cache' = EmptyDict
    /\ _timestamps' = EmptyDict
    /\ stored' = EmptyDict
    /\ superseded' = EmptyDict
    /\ ret' = NoCallReturned
    /\ UNCHANGED <<svars, clock, _db, firestore, started, mvars, tvars>>

\* no SnapshotService is involved
IdleService ==
    /\ adapters = NoneV /\ adapter_specs = NoneV
    /\ _adapters = <<>> /\ _adapter_specs = <<>>
    /\ pc = "cache"
    /\ idx = 0
    /\ snapshot = NoneV
    /\ partial = Absent
    /\ airquality_status = NoneV
    /\ location = "dublin"
    /\ calls = <<>>
    /\ last_nonempty = [f \in FieldSet |-> Absent]
    /\ metrics_calls = <<>>

\* AdapterCache(db): lines 43-45, over whatever the collection holds
CacheConstructed ==
    /\ _cache = EmptyDict
    /\ _timestamps = EmptyDict
    /\ _db \in BOOLEAN
    /\ firestore \in (IF _db THEN DictsOver(StartNames, EarlierDocs \cup ForeignDocs)
                      ELSE {EmptyDict})
    /\ stored = EmptyDict
    /\ superseded = EmptyDict
    /\ ret = [op |-> "init"]
    /\ waiting = {}
    /\ started = 0
    /\ retired = <<>>
    /\ clock = 1

CacheInit == IdleService /\ CacheConstructed /\ IdleMerge /\ IdleThreads

CacheNext ==
    \/ CacheFetchReturns \/ CacheFetchRaises \/ CacheFetchUnnamed
    \/ HasCached \/ LastSuccessTime \/ Clear \/ ClearAll \/ Restart
    \/ SetActs \/ SetAnswers \/ GetActs \/ GetAnswers
    \/ StreamActs \/ StreamAnswers \/ DeleteActs \/ DeleteAnswers

CacheSpec == CacheInit /\ [][CacheNext]_vars

---------------------------------------------------------------------------
(* backend/fallback/cache.py called from several threads at once.  The class *)
(* takes no lock, so the calls interleave between the statements that read   *)
(* or write self._cache, self._timestamps and the collection; each action    *)
(* below is one such statement, named after its line.                        *)

\* the source name the threads contend for
ConcNames == {"A"}

BoolV(b) == [kind |-> "bool", v |-> b]
Pair(payload, status) == [kind |-> "pair", payload |-> payload, status |-> status]
\* an exception that leaves the call
Raised(error) == [kind |-> "raised", error |-> error]

\* the entry of name as the memory layer shows it at this moment
Visible(name) ==
    [payload |-> IF name \in DOMAIN _cache THEN _cache[name] ELSE Absent,
     time |-> IF name \in DOMAIN _timestamps THEN _timestamps[name] ELSE Absent]

ReaderOps == {"fetch_failing", "has_cached", "last_success_time"}

\* thread t goes on with record r
Goes(t, r) == threads' = [threads EXCEPT ![t] = r]

\* thread t returns `out` from its call (or raises it), having seen the entry
\* of its name
Returns(t, out) ==
    Goes(t, [threads[t] EXCEPT !.pc = "idle", !.out = out,
                               !.seen = Visible(threads[t].name)])

\* a statement that touches neither the memory layer nor the collection
CacheUnchanged == UNCHANGED <<svars, clock, cvars, mvars>>

\* fetch_with_fallback, lines 66-70 and 77: adapter.fetch returned `result`
\* and _store took `now`
CallFetchReturns ==
    /\ clock <= MaxClock
    /\ \E t \in Threads, name \in ConcNames :
         /\ threads[t].pc = "idle"
         /\ Goes(t, [IdleThread EXCEPT !.op = "fetch_returning", !.pc = "line78",
                                       !.name = name, !.result = Obj(clock),
                                       !.now = DateTime(clock)])
    /\ clock' = clock + 1
    /\ UNCHANGED <<svars, cvars, mvars>>

\* _store, line 78: self._cache[name] = snapshot
Line78 ==
    \E t \in Threads :
        /\ threads[t].pc = "line78"
        /\ _cache' = DictSet(_cache, threads[t].name, threads[t].result)
        /\ Goes(t, [threads[t] EXCEPT !.pc = "line79"])
        /\ UNCHANGED <<svars, clock, _timestamps, _db, retired, waiting, started, firestore, ret, stored,
                       superseded, mvars>>

\* _store, line 79: self._timestamps[name] = now
Line79 ==
    \E t \in Threads :
        /\ threads[t].pc = "line79"
        /\ _timestamps' = DictSet(_timestamps, threads[t].name, threads[t].now)
        /\ Goes(t, [threads[t] EXCEPT !.pc = "line82"])
        /\ UNCHANGED <<svars, clock, _cache, _db, retired, waiting, started, firestore, ret, stored,
                       superseded, mvars>>

\* _store, lines 82-83: collection = self._get_collection().  Without a
\* database it is None and the call returns (result, "live"), line 71; an error
\* of db.collection() leaves _store and is caught at line 72, which calls
\* _fallback
Line82 ==
    \E t \in Threads, raises \in BOOLEAN :
        /\ threads[t].pc = "line82"
        /\ raises => _db
        /\ IF ~_db THEN Returns(t, Pair(threads[t].result, "live"))
           ELSE Goes(t, [threads[t] EXCEPT !.pc = IF raises THEN "line99" ELSE "line86"])
        /\ CacheUnchanged

\* _store, lines 85-91: the server acts on set(): the document is written, or
\* the request fails (swallowed at lines 92-94)
Line86 ==
    \E t \in Threads, failed \in BOOLEAN :
        /\ threads[t].pc = "line86"
        /\ firestore' = IF failed THEN firestore
                        ELSE DictSet(firestore, threads[t].name,
                                     Document(Blob(threads[t].result),
                                              IsoFormat(threads[t].now)))
        /\ Goes(t, [threads[t] EXCEPT !.pc = "line71"])
        /\ UNCHANGED <<svars, clock, _cache, _timestamps, _db, retired, waiting, started, ret, stored,
                       superseded, mvars>>

\* fetch_with_fallback, line 71, once set() has answered: return result, "live"
Line71 ==
    \E t \in Threads :
        /\ threads[t].pc = "line71"
        /\ Returns(t, Pair(threads[t].result, "live"))
        /\ CacheUnchanged

\* a thread enters has_cached, last_success_time, or fetch_with_fallback with
\* an adapter whose fetch raises (which goes to _fallback)
CallReader ==
    \E t \in Threads, op \in ReaderOps, name \in ConcNames :
        /\ threads[t].pc = "idle"
        /\ Goes(t, [IdleThread EXCEPT
                       !.op = op, !.name = name,
                       !.pc = IF op = "fetch_failing" THEN "line99"
                              ELSE IF op = "has_cached" THEN "line132" ELSE "line140"])
        /\ CacheUnchanged

\* _fallback, line 99: if name in self._cache
Line99 ==
    \E t \in Threads :
        /\ threads[t].pc = "line99"
        /\ Goes(t, [threads[t] EXCEPT !.pc = IF threads[t].name \in DOMAIN _cache
                                             THEN "line100" ELSE "line112"])
        /\ CacheUnchanged

\* _fallback, line 100: return self._cache[name], "cached"; the subscript
\* raises KeyError when the entry was removed since line 99, and nothing
\* catches it (_fallback runs in the except handler of fetch_with_fallback)
Line100 ==
    \E t \in Threads :
        /\ threads[t].pc = "line100"
        /\ Returns(t, IF threads[t].name \in DOMAIN _cache
                      THEN Pair(_cache[threads[t].name], "cached")
                      ELSE Raised("KeyError"))
        /\ CacheUnchanged

\* has_cached, lines 132-133
Line132 ==
    \E t \in Threads :
        /\ threads[t].pc = "line132"
        /\ IF threads[t].name \in DOMAIN _cache
           THEN Returns(t, BoolV(TRUE))
           ELSE Goes(t, [threads[t] EXCEPT !.pc = "line112"])
        /\ CacheUnchanged

\* last_success_time, line 140: if name in self._timestamps
Line140 ==
    \E t \in Threads :
        /\ threads[t].pc = "line140"
        /\ Goes(t, [threads[t] EXCEPT !.pc = IF threads[t].name \in DOMAIN _timestamps
                                             THEN "line141" ELSE "line112"])
        /\ CacheUnchanged

\* last_success_time, line 141: return self._timestamps[name]; the subscript
\* raises KeyError when the entry was removed since line 140
Line141 ==
    \E t \in Threads :
        /\ threads[t].pc = "line141"
        /\ Returns(t, IF threads[t].name \in DOMAIN _timestamps
                      THEN _timestamps[threads[t].name]
                      ELSE Raised("KeyError"))
        /\ CacheUnchanged

\* _load_from_firestore, lines 112-114: collection = self._get_collection().
\* Without a database the function returns None; an error of db.collection()
\* is outside the try and leaves the call
Line112 ==
    \E t \in Threads, raises \in BOOLEAN :
        /\ threads[t].pc = "line112"
        /\ raises => _db
        /\ IF raises THEN Returns(t, Raised("RuntimeError"))
           ELSE Goes(t, [threads[t] EXCEPT !.pc = IF _db THEN "line117" ELSE "line128",
                                           !.loaded = NoneV])
        /\ CacheUnchanged

\* _load_from_firestore, lines 117-120: the server acts on get() and the
\* document is unpickled; a failed request, no document or undecodable data
\* make the function return None (lines 125-128)
Line117 ==
    \E t \in Threads, failed \in BOOLEAN :
        /\ threads[t].pc = "line117"
        /\ LET name == threads[t].name
               hit == /\ ~failed /\ name \in DOMAIN firestore
                      /\ firestore[name].data.kind = "blob"
           IN Goes(t, IF hit
                      THEN [threads[t] EXCEPT !.pc = "line122",
                                              !.loaded = firestore[name].data.of,
                                              !.now = firestore[name].timestamp]
                      ELSE [threads[t] EXCEPT !.pc = "line128", !.loaded = NoneV])
        /\ CacheUnchanged

\* _load_from_firestore, line 122: self._cache[name] = snapshot
Line122 ==
    \E t \in Threads :
        /\ threads[t].pc = "line122"
        /\ _cache' = DictSet(_cache, threads[t].name, threads[t].loaded)
        /\ Goes(t, [threads[t] EXCEPT !.pc = "line123"])
        /\ UNCHANGED <<svars, clock, _timestamps, _db, retired, waiting, started, firestore, ret, stored,
                       superseded, mvars>>

\* _load_from_firestore, line 123: self._timestamps[name] = fromisoformat(...);
\* a missing or malformed timestamp raises, which line 125 swallows
Line123 ==
    \E t \in Threads :
        /\ threads[t].pc = "line123"
        /\ IF threads[t].now.kind = "iso"
           THEN /\ _timestamps' = DictSet(_timestamps, threads[t].name,
                                          FromIsoFormat(threads[t].now))
                /\ Goes(t, [threads[t] EXCEPT !.pc = "line128"])
           ELSE /\ _timestamps' = _timestamps
                /\ Goes(t, [threads[t] EXCEPT !.pc = "line128", !.loaded = NoneV])
        /\ UNCHANGED <<svars, clock, _cache, _db, retired, waiting, started, firestore, ret, stored,
                       superseded, mvars>>

\* _load_from_firestore returned `loaded` to its caller: _fallback lines
\* 104-108, has_cached line 136, last_success_time line 145
Line128 ==
    \E t \in Threads :
        /\ threads[t].pc = "line128"
        /\ LET name == threads[t].name
               loaded == threads[t].loaded
           IN Returns(t,
                IF threads[t].op = "has_cached" THEN BoolV(loaded # NoneV)
                ELSE IF threads[t].op = "last_success_time"
                THEN (IF name \in DOMAIN _timestamps THEN _timestamps[name] ELSE NoneV)
                ELSE IF loaded # NoneV THEN Pair(loaded, "cached")
                ELSE Pair(NoneV, "failed"))
        /\ CacheUnchanged

\* a thread enters clear(adapter_name) or clear(): line 152
CallClear ==
    \E t \in Threads, name \in ConcNames \cup {"*"} :
        /\ threads[t].pc = "idle"
        /\ Goes(t, [IdleThread EXCEPT
                       !.op = "clear", !.name = name,
                       !.pc = IF name \in ConcNames THEN "line153" ELSE "line157"])
        /\ CacheUnchanged

\* clear, line 153: self._cache.pop(adapter_name, None)
Line153 ==
    \E t \in Threads :
        /\ threads[t].pc = "line153"
        /\ _cache' = DictPop(_cache, threads[t].name)
        /\ Goes(t, [threads[t] EXCEPT !.pc = "line154"])
        /\ UNCHANGED <<svars, clock, _timestamps, _db, retired, waiting, started, firestore, ret, stored,
                       superseded, mvars>>

\* clear, line 154: self._timestamps.pop(adapter_name, None)
Line154 ==
    \E t \in Threads :
        /\ threads[t].pc = "line154"
        /\ _timestamps' = DictPop(_timestamps, threads[t].name)
        /\ Goes(t, [threads[t] EXCEPT !.pc = "line163"])
        /\ UNCHANGED <<svars, clock, _cache, _db, retired, waiting, started, firestore, ret, stored,
                       superseded, mvars>>

\* clear, line 157: self._cache.clear()
Line157 ==
    \E t \in Threads :
        /\ threads[t].pc = "line157"
        /\ _cache' = EmptyDict
        /\ Goes(t, [threads[t] EXCEPT !.pc = "line158"])
        /\ UNCHANGED <<svars, clock, _timestamps, _db, retired, waiting, started, firestore, ret, stored,
                       superseded, mvars>>

\* clear, line 158: self._timestamps.clear()
Line158 ==
    \E t \in Threads :
        /\ threads[t].pc = "line158"
        /\ _timestamps' = EmptyDict
        /\ Goes(t, [threads[t] EXCEPT !.pc = "line172"])
        /\ UNCHANGED <<svars, clock, _cache, _db, retired, waiting, started, firestore, ret, stored,
                       superseded, mvars>>

\* _delete_from_firestore, lines 163-164, and _delete_all_from_firestore,
\* lines 172-173: collection = self._get_collection().  Without a database
\* clear returns; an error of db.collection() is outside the try and leaves
\* clear
Line163 ==
    \E t \in Threads, raises \in BOOLEAN :
        /\ threads[t].pc \in {"line163", "line172"}
        /\ raises => _db
        /\ IF raises THEN Returns(t, Raised("RuntimeError"))
           ELSE IF ~_db THEN Returns(t, NoneV)
           ELSE Goes(t, [threads[t] EXCEPT !.pc = IF threads[t].pc = "line163"
                                                  THEN "line166" ELSE "line175"])
        /\ CacheUnchanged

\* _delete_from_firestore, line 166: the server acts on delete(): the document
\* is gone, or the request fails (swallowed at lines 167-168)
Line166 ==
    \E t \in Threads, failed \in BOOLEAN :
        /\ threads[t].pc = "line166"
        /\ firestore' = IF failed THEN firestore ELSE DictPop(firestore, threads[t].name)
        /\ Goes(t, [threads[t] EXCEPT !.pc = "line168"])
        /\ UNCHANGED <<svars, clock, _cache, _timestamps, _db, retired, waiting, started, ret, stored,
                       superseded, mvars>>

\* _delete_all_from_firestore, line 175: the server acts on stream() and lists
\* the documents there are, or the request fails (swallowed at lines 178-179)
Line175 ==
    \E t \in Threads, failed \in BOOLEAN :
        /\ threads[t].pc = "line175"
        /\ Goes(t, IF failed \/ firestore = EmptyDict
                   THEN [threads[t] EXCEPT !.pc = "line168"]
                   ELSE [threads[t] EXCEPT !.pc = "line177", !.docs = DOMAIN firestore])
        /\ CacheUnchanged

\* _delete_all_from_firestore, lines 176-177: the server acts on the delete()
\* of the next listed document; a failed request ends the loop (lines 178-179)
Line177 ==
    \E t \in Threads, failed \in BOOLEAN :
        /\ threads[t].pc = "line177"
        /\ \E n \in threads[t].docs :
             /\ firestore' = IF failed THEN firestore ELSE DictPop(firestore, n)
             /\ Goes(t, IF failed \/ threads[t].docs = {n}
                        THEN [threads[t] EXCEPT !.pc = "line168", !.docs = {}]
                        ELSE [threads[t] EXCEPT !.docs = @ \ {n}])
        /\ UNCHANGED <<svars, clock, _cache, _timestamps, _db, retired, waiting, started, ret, stored,
                       superseded, mvars>>

\* clear returns None once its last request has answered
Line168 ==
    \E t \in Threads :
        /\ threads[t].pc = "line168"
        /\ Returns(t, NoneV)
        /\ CacheUnchanged

\* one AdapterCache, with or without a database that holds a document an
\* earlier process wrote, and no call in progress
ConcInit ==
    /\ IdleService /\ IdleMerge /\ IdleThreads
    /\ _cache = EmptyDict /\ _timestamps = EmptyDict
    /\ _db \in BOOLEAN
    /\ firestore \in (IF _db
                      THEN DictsOver(ConcNames,
                                     {Document(Blob(Obj(0)), IsoFormat(DateTime(0)))})
                      ELSE {EmptyDict})
    /\ stored = EmptyDict /\ superseded = EmptyDict
    /\ ret = [op |-> "init"]
    /\ waiting = {}
    /\ started = 0
    /\ retired = <<>>
    /\ clock = 1

ConcNext ==
    \/ CallFetchReturns \/ Line78 \/ Line79 \/ Line82 \/ Line86 \/ Line71
    \/ CallReader \/ Line99 \/ Line100 \/ Line132 \/ Line140 \/ Line141
    \/ Line112 \/ Line117 \/ Line122 \/ Line123 \/ Line128
    \/ CallClear \/ Line153 \/ Line154 \/ Line157 \/ Line158
    \/ Line163 \/ Line166 \/ Line175 \/ Line177 \/ Line168

ConcSpec == ConcInit /\ [][ConcNext]_vars

---------------------------------------------------------------------------
(* Construction of a SnapshotService followed by a build *)

\* SnapshotService(adapters=..., adapter_specs=...) is being called
Constructing(specs) ==
    /\ adapters \in AdapterArgs /\ adapter_specs \in specs
    /\ _adapters = <<>> /\ _adapter_specs = <<>>
    /\ pc = "new"
    /\ idx = 0
    /\ snapshot = NoneV
    /\ partial = Absent
    /\ airquality_status = NoneV
    /\ location = "dublin"
    /\ calls = <<>>
    /\ last_nonempty = [f \in FieldSet |-> Absent]
    /\ metrics_calls = <<>>
    /\ clock = 0 /\ IdleCache /\ IdleMerge /\ IdleThreads

CtorInit == Constructing(SpecArgs)

\* __init__ runs: lines 44-51; a ValueError leaves no instance to build with
Construct ==
    /\ pc = "new"
    /\ LET r == __init__(adapters, adapter_specs)
       IN /\ _adapters' = r._adapters
          /\ _adapter_specs' = r._adapter_specs
          /\ pc' = IF r.raised THEN "ctor_raised" ELSE "idle"
    /\ adapters' = NoneV /\ adapter_specs' = NoneV
    /\ UNCHANGED <<idx, snapshot, partial, airquality_status, location, calls,
                   last_nonempty, metrics_calls, clock, cvars, mvars, tvars>>

CtorNext == Construct \/ BuildStart \/ FetchReturns \/ FetchRaises \/ ApplyAnalytics

CtorSpec == CtorInit /\ [][CtorNext]_vars

---------------------------------------------------------------------------
(* The three-source scenario: A, B, C registered in that order, next to a   *)
(* fallback cache that may hold an earlier payload of any of them           *)

\* a payload an earlier successful fetch left in the cache
CachedPartial == PartialResult(TRUE, [f \in {"buses"} |-> Obj(0)], 0)

ScenarioInit ==
    /\ _adapters = <<AdapterA, AdapterB, AdapterC>>
    /\ _adapter_specs = <<>>
    /\ ServiceFresh
    /\ clock = 1
    /\ _cache \in DictsOver({"A", "B", "C"}, {CachedPartial})
    /\ _timestamps = [n \in DOMAIN _cache |-> DateTime(0)]
    /\ stored = _cache
    /\ superseded = [n \in DOMAIN _cache |-> {}]
    /\ _db = FALSE
    /\ firestore = EmptyDict
    /\ ret = [op |-> "init"]
    /\ waiting = {}
    /\ started = 0
    /\ retired = <<>>
    /\ IdleMerge /\ IdleThreads

ScenarioSpec == ScenarioInit /\ [][Next]_vars

---------------------------------------------------------------------------
(* _merge applied repeatedly to one target with one partial result *)

\* the targets: a fresh snapshot after one merge of anything a fetch returns
MergeTargets ==
    {_merge(MobilitySnapshot(DateTime(0), loc, EmptyDict), p) :
        loc \in Locations, p \in FetchResults(1, 1)}

MergeInit ==
    /\ IdleService /\ clock = 0 /\ IdleCache /\ IdleThreads
    /\ m_target \in MergeTargets
    /\ m_partial \in FetchResults(2, 2)
    /\ m_once = NoneV
    /\ m_count = 0

\* self._merge(m_target, m_partial); the first result is remembered in m_once
MergeApply ==
    /\ m_count < 2
    /\ m_target' = _merge(m_target, m_partial)
    /\ m_once' = IF m_count = 0 THEN m_target' ELSE m_once
    /\ m_count' = m_count + 1
    /\ UNCHANGED <<svars, clock, cvars, m_partial, tvars>>

MergeNext == MergeApply

MergeSpec == MergeInit /\ [][MergeNext]_vars

---------------------------------------------------------------------------
(* Either of the two callers of adapter.fetch at work: a SnapshotService     *)
(* that is constructed and builds, or an AdapterCache that is operated,      *)
(* starting over an empty collection                                         *)

\* a service is being constructed, from registrations among which one names
\* `location` in its keyword arguments, or a cache is in use
ForwardInit ==
    \/ Constructing(SpecArgs \cup
                      {ListV(q) : q \in NonEmptySeqs(
                           AdapterCallSpecs \cup
                               {AdapterCallSpec(AdapterA, LocationKwargs("cork"))},
                           MaxRegs)})
    \/ (CacheInit /\ firestore = EmptyDict)

ForwardNext == CtorNext \/ CacheNext

ForwardSpec == ForwardInit /\ [][ForwardNext]_vars

---------------------------------------------------------------------------
(* A build with a source whose fetch never returns.  build_snapshot calls    *)
(* adapter.fetch synchronously (line 63) and passes no timeout; nothing in   *)
(* the loop ends the wait.                                                    *)

\* one iteration of the loop, lines 60-63: adapter.fetch is entered and does
\* not return; no later statement of build_snapshot runs
FetchNeverReturns ==
    /\ pc = "loop"
    /\ idx <= Len(_iter_adapters_with_kwargs)
    /\ KeywordCall(LocationKwargs(location), _iter_adapters_with_kwargs[idx][2]).entered
    /\ pc' = "blocked"
    /\ UNCHANGED <<adapters, adapter_specs, _adapters, _adapter_specs, idx, snapshot,
                   partial, airquality_status, location, calls, last_nonempty,
                   metrics_calls, clock, cvars, mvars, tvars>>

TimeoutNext == Next \/ FetchNeverReturns

\* every statement of build_snapshot that can run does run: the interpreter
\* keeps executing the one thread the build runs in
TimeoutSpec == Init /\ [][TimeoutNext]_vars /\ WF_vars(TimeoutNext)

---------------------------------------------------------------------------
(* Properties *)

Registrations == _iter_adapters_with_kwargs
ResolvedName(i) == _safe_source_name(Registrations[i][1])
LoopFinished == pc = "loop" /\ idx > Len(Registrations)
Statuses == {"live", "cached", "failed"}

\* what the analytics step leaves in a slot that held v after the merges
AfterAnalytics(f, v) ==
    IF f = "traffic" /\ v.kind = "list"
    THEN build_traffic_metrics(v, DefaultRadiusKm).value
    ELSE v

\* the last registration whose fetch returned a value for slot f (0: none)
LatestFiller(f) ==
    LET S == {i \in 1..Len(calls) : f \in calls[i].filled}
    IN IF S = {} THEN 0 ELSE CHOOSE i \in S : \A j \in S : j <= i

\* C1: build_snapshot returns a snapshot and never raises, whatever the adapters
\* and the analysis functions do.
C1_BuildNeverRaises == pc # "raised"

\* C2: after a completed build, source_status has exactly one entry per
\* registration (as many entries as registrations, every resolved name a key)
\* and every value is live, cached or failed.
C2_OneEntryPerRegistration ==
    pc = "done" =>
        /\ Cardinality(DOMAIN snapshot.source_status) = Len(Registrations)
        /\ \A i \in 1..Len(Registrations) : ResolvedName(i) \in DOMAIN snapshot.source_status
        /\ \A n \in DOMAIN snapshot.source_status : snapshot.source_status[n] \in Statuses

\* C3: bulkhead isolation: every registration is invoked, every source whose
\* fetch raised is recorded as failed, every source whose fetch returned is
\* recorded as live and the slots it filled are populated.
C3_BulkheadIsolation ==
    (LoopFinished \/ pc = "done") =>
        /\ Len(calls) = Len(Registrations)
        /\ \A i \in 1..Len(calls) :
             /\ calls[i].outcome = "raised" =>
                    snapshot.source_status[ResolvedName(i)] = "failed"
             /\ calls[i].outcome = "returned" =>
                    /\ snapshot.source_status[ResolvedName(i)] = "live"
                    /\ \A f \in calls[i].filled : snapshot[f] \notin {NoneV, Absent}

\* the scenario of C4: A returned, B raised with an earlier payload in the
\* cache, C raised with nothing in the cache
Scenario ==
    /\ Len(calls) = 3
    /\ calls[1].outcome = "returned"
    /\ calls[2].outcome = "raised"
    /\ calls[3].outcome = "raised"
    /\ "B" \in DOMAIN _cache
    /\ "C" \notin DOMAIN _cache

\* C4 as stated: in the scenario the status map is {A: live, B: cached,
\* C: failed} and B's slots hold the cached payload.
C4_ScenarioStatusCached ==
    (pc = "done" /\ Scenario) =>
        /\ snapshot.source_status =
             [n \in {"A", "B", "C"} |->
                IF n = "A" THEN "live" ELSE IF n = "B" THEN "cached" ELSE "failed"]
        /\ \A f \in Filled(_cache["B"]) \ calls[1].filled : snapshot[f] = _cache["B"][f]

\* C4 as amended: build_snapshot calls fetch directly and never consults the
\* fallback cache, so in the scenario the status map is {A: live, B: failed,
\* C: failed}; the slots A filled are populated and every other slot is unset.
C4_ScenarioStatusFailed ==
    (pc = "done" /\ Scenario) =>
        /\ snapshot.source_status =
             [n \in {"A", "B", "C"} |-> IF n = "A" THEN "live" ELSE "failed"]
        /\ \A f \in FieldSet :
             snapshot[f] = IF f \in calls[1].filled THEN AfterAnalytics(f, partial[f])
                           ELSE MobilitySnapshot(NoneV, location, EmptyDict)[f]

C4_Witness ==
    pc = "done" /\ Scenario /\ calls[1].filled # {}

\* C5: fetch_with_fallback reports live only when adapter.fetch returned during
\* that call and the payload is that call's result; a payload taken from the
\* memory or the durable layer is reported as cached.
C5_LiveOnlyForFreshData ==
    (ret.op = "fetch_with_fallback" /\ ~ret.raised) =>
        /\ ret.status = "live" =>
              ret.fetch = "returned" /\ ret.source = "fetch" /\ ret.payload = ret.fetched
        /\ ret.source \in {"memory", "firestore"} => ret.status = "cached"

C5_Witness ==
    /\ ret.op = "fetch_with_fallback" /\ ~ret.raised
    /\ ret.fetch = "raised" /\ ret.source = "firestore" /\ ret.status = "cached"
    /\ ret.replaced

\* C6 as stated: if an earlier source filled slot X and every later source
\* left X empty, X holds the earlier source's value after the build.
C6_HoldsAfterBuild ==
    pc = "done" =>
        \A f \in FieldSet :
            (LatestFiller(f) > 0 /\ LatestFiller(f) < Len(calls)) =>
                snapshot[f] = last_nonempty[f]

\* C6 as amended: a loop iteration whose fetch raised, returned None or
\* returned a result whose X is None or missing leaves X unchanged, for every
\* mergeable slot; the analytics step leaves every slot unchanged too, except
\* that a traffic slot holding a list is replaced by the metrics of that list.
C6_EmptyNeverErases ==
    [][/\ (pc = "loop" /\ idx' = idx + 1) =>
              \A f \in FieldSet : f \notin calls'[idx].filled => snapshot'[f] = snapshot[f]
       /\ (pc = "loop" /\ pc' = "done") =>
              \A f \in FieldSet : snapshot'[f] = AfterAnalytics(f, snapshot[f])]_vars

C6_Witness ==
    /\ pc = "done" /\ Len(calls) >= 2
    /\ calls[2].outcome = "returned"
    /\ \E f \in FieldSet :
         /\ LatestFiller(f) = 1
         /\ snapshot[f] = last_nonempty[f]

\* C7 as stated: when two or more sources returned a value for the same slot,
\* the returned snapshot holds the value of the latest of them.
C7_ReturnedHoldsLatest ==
    pc = "done" =>
        \A f \in FieldSet :
            Cardinality({i \in 1..Len(calls) : f \in calls[i].filled}) >= 2 =>
                snapshot[f] = last_nonempty[f]

\* C7 as amended: merges are applied in registration order: while the loop runs
\* and when it ends every slot holds the value of the latest registration that
\* returned a value for it; the returned snapshot holds that value too, except
\* that a traffic list has been replaced by the metrics computed from it.
C7_LatestNonEmptyWins ==
    \A f \in FieldSet :
        LatestFiller(f) > 0 =>
            /\ pc = "loop" => snapshot[f] = last_nonempty[f]
            /\ pc = "done" => snapshot[f] = AfterAnalytics(f, last_nonempty[f])
            /\ (pc \in {"loop", "done"} /\ f \notin {"traffic", "airquality"}) =>
                   snapshot[f] = Obj(LatestFiller(f))

C7_Witness ==
    /\ pc = "done" /\ Len(calls) >= 2
    /\ \E f \in calls[1].filled \cap calls[2].filled :
         snapshot[f] = Obj(2) /\ last_nonempty[f] = Obj(2)

\* C8: merge idempotence: applying _merge with the same partial result twice
\* leaves the target as one application left it.
C8_MergeIdempotent == m_count = 2 => m_target = m_once

C8_Witness ==
    /\ m_count = 2 /\ m_partial # NoneV
    /\ \E f \in Filled(m_partial) : m_target[f] = m_partial[f]

\* C9: after a successful fetch for a name (and until a clear or a restart),
\* has_cached(name) is true, last_success_time(name) is not None, and a
\* fetch for that name whose adapter.fetch raises returns the stored payload
\* with status cached; with and without a durable layer.  The three calls are
\* made once every earlier call has returned, each with no other call running
\* beside it.
C9_CacheRoundTrip ==
    waiting = {} =>
        \A name \in DOMAIN stored : \A mode \in DbModes :
            /\ has_cached(name, mode).value /\ ~has_cached(name, mode).raised
            /\ last_success_time(name, mode).time # NoneV
            /\ LET fb == _fallback(name, mode, _cache, _timestamps)
               IN ~fb.raised /\ fb.payload = stored[name] /\ fb.status = "cached"

\* a document as _store writes it
WrittenByStore(doc) ==
    doc # Absent /\ doc.data.kind = "blob" /\ doc.timestamp.kind = "iso"

\* C10: cold start: with no memory entry for name and a document for name in
\* the durable layer (which works), has_cached(name) is true, and a fetch whose
\* adapter.fetch raises returns the document's payload with status cached and
\* warms the memory layer with it (judged on calls that ran with no other
\* call beside them).
C10_ColdStartRecovery ==
    /\ (ret.op = "has_cached" /\ ret.alone /\ ~ret.mem_hit /\ ret.mode = "ok"
            /\ WrittenByStore(ret.doc)) => ret.value
    /\ (ret.op = "fetch_with_fallback" /\ ret.fetch = "raised" /\ ret.alone
            /\ ~ret.mem_hit /\ ret.mode = "ok" /\ WrittenByStore(ret.doc)) =>
          /\ ret.status = "cached"
          /\ ret.payload = ret.doc.data.of
          /\ ret.name \in DOMAIN _cache /\ _cache[ret.name] = ret.doc.data.of

\* C11: when adapter.fetch raises and neither layer holds an entry for the name,
\* fetch_with_fallback returns (None, failed); with no entry in either layer
\* has_cached(name) is false and last_success_time(name) is None (judged on
\* calls that ran with no other call beside them).
C11_NothingCachedFails ==
    (ret.op # "init" /\ ret.alone /\ ~ret.mem_hit /\ ret.doc = Absent) =>
        /\ (ret.op = "fetch_with_fallback" /\ ret.fetch = "raised") =>
              ~ret.raised /\ ret.payload = NoneV /\ ret.status = "failed"
        /\ ret.op = "has_cached" => ~ret.raised /\ ~ret.value
        /\ ret.op = "last_success_time" => ~ret.raised /\ ret.time = NoneV

\* C12: last-write-wins: after any fetches of one instance with no clear in
\* between, the memory layer holds for a name the payload and the timestamp of
\* the most recent successful fetch for it, and a fetch for it whose
\* adapter.fetch raises, made once every earlier call has returned and with no
\* other call running beside it, returns that payload, never an older one.
C12_LastWriteWins ==
    waiting = {} =>
        \A name \in DOMAIN stored :
            /\ name \in DOMAIN _cache /\ _cache[name] = stored[name]
            /\ name \in DOMAIN _timestamps
            /\ stored[name].kind = "obj" => _timestamps[name] = DateTime(stored[name].id)
            /\ \A mode \in DbModes :
                  LET fb == _fallback(name, mode, _cache, _timestamps)
                  IN /\ ~fb.raised /\ fb.status = "cached"
                     /\ fb.payload = stored[name]
                     /\ fb.payload.kind = "obj" => fb.payload \notin superseded[name]

\* C13: when adapter.fetch succeeds and the durable layer fails while the
\* payload is persisted, the error is swallowed: fetch_with_fallback returns
\* (that payload, live) and the memory layer holds the new payload and timestamp
\* (judged on calls that ran with no other call beside them).
C13_DurableWriteErrorSwallowed ==
    (ret.op = "fetch_with_fallback" /\ ret.fetch = "returned" /\ ret.alone
        /\ ret.mode \in {"collection_raises", "op_raises"}) =>
        /\ ~ret.raised
        /\ ret.payload = ret.fetched /\ ret.status = "live"
        /\ ret.name \in DOMAIN _cache /\ _cache[ret.name] = ret.fetched
        /\ ret.name \in DOMAIN _timestamps
        /\ _timestamps[ret.name] = DateTime(clock - 1)

\* the record, as it is after the step, of the call that took the step: the
\* call that started, sent or received an answer, or whose request the server
\* acted on (no call when the instance is replaced)
Stepped ==
    IF ret'.op # "init" THEN {ret'}
    ELSE IF started' # started THEN {c.r : c \in {d \in waiting' : d.id = started'}}
    ELSE {d.r : d \in {e \in waiting' :
                          \E c \in waiting : /\ c.id = e.id
                                             /\ <<c.call, c.phase, c.target>> #
                                                <<e.call, e.phase, e.target>>}}

\* C14: clear(a) removes only a's entry: in no step of the call does the
\* memory entry or the durable entry of another name b change, has_cached(b) and
\* last_success_time(b) keep their values, and when the call has returned
\* has_cached(a) is false (the latter judged on clears that ran with no other
\* call beside them).
C14_ClearRemovesOnlyThatName ==
    [][\A a \in CacheNames :
          /\ \A r \in Stepped :
                (r.op = "clear" /\ r.name = a) =>
                   \A b \in CacheNames \ {a} :
                      /\ (b \in DOMAIN _cache') = (b \in DOMAIN _cache)
                      /\ b \in DOMAIN _cache => _cache'[b] = _cache[b]
                      /\ (b \in DOMAIN _timestamps') = (b \in DOMAIN _timestamps)
                      /\ b \in DOMAIN _timestamps => _timestamps'[b] = _timestamps[b]
                      /\ (b \in DOMAIN firestore') = (b \in DOMAIN firestore)
                      /\ b \in DOMAIN firestore => firestore'[b] = firestore[b]
                      /\ has_cached(b, "ok")'.value = has_cached(b, "ok").value
                      /\ last_success_time(b, "ok")'.time = last_success_time(b, "ok").time
          /\ (ret'.op = "clear" /\ ret'.name = a /\ ~ret'.raised /\ ret'.alone) =>
                ~has_cached(a, "ok")'.value]_vars

\* the names clear was asked to remove
Cleared == IF ret.name \in FalsyNames THEN CacheNames ELSE {ret.name}

\* C15: after clear(name) returns neither layer holds an entry for name:
\* has_cached(name) is false, last_success_time(name) is None and a failing
\* fetch for name yields (None, failed); after clear() this holds for every name
\* (judged on clears that ran with no other call beside them).
C15_ClearRemovesFromBothLayers ==
    (ret.op = "clear" /\ ~ret.raised /\ ret.alone) =>
        \A name \in Cleared :
            /\ name \notin DOMAIN _cache /\ name \notin DOMAIN _timestamps
            /\ name \notin DOMAIN firestore
            /\ ~has_cached(name, "ok").value
            /\ last_success_time(name, "ok").time = NoneV
            /\ _fallback(name, "ok", _cache, _timestamps).payload = NoneV
            /\ _fallback(name, "ok", _cache, _timestamps).status = "failed"

\* C16: with no memory entry for name (and a durable layer that answers, whose
\* documents were written by _store), has_cached(name) is true and
\* last_success_time(name) is the stored timestamp exactly when the durable
\* layer holds an entry for name, and no adapter fetch is invoked (judged on
\* calls that ran with no other call beside them).
C16_IntrospectionLooksUpDurable ==
    (ret.op \in {"has_cached", "last_success_time"} /\ ret.alone /\ ~ret.mem_hit
        /\ ret.mode = "ok" /\ (ret.doc = Absent \/ WrittenByStore(ret.doc))) =>
        /\ ~ret.raised /\ ret.fetch = "none"
        /\ ret.op = "has_cached" => (ret.value <=> ret.doc # Absent)
        /\ ret.op = "last_success_time" =>
              ret.time = IF ret.doc = Absent THEN NoneV
                         ELSE FromIsoFormat(ret.doc.timestamp)

\* C17: constructing a SnapshotService raises at once when no registration is
\* supplied (both arguments None or empty) and when both styles are supplied;
\* with exactly one non-empty style it succeeds with those registrations, and
\* no later operation adds, removes or reorders registrations.
C17_ConstructionChecksRegistrations ==
    [][/\ pc = "new" =>
             LET a == IF adapters = NoneV THEN <<>> ELSE adapters.items
                 s == IF adapter_specs = NoneV THEN <<>> ELSE adapter_specs.items
             IN /\ (a = <<>> /\ s = <<>>) => pc' = "ctor_raised" /\ calls' = <<>>
                /\ (a # <<>> /\ s # <<>>) => pc' = "ctor_raised" /\ calls' = <<>>
                /\ (a # <<>> /\ s = <<>>) =>
                       /\ pc' = "idle"
                       /\ Registrations' = [i \in 1..Len(a) |-> <<a[i], EmptyDict>>]
                /\ (a = <<>> /\ s # <<>>) =>
                       /\ pc' = "idle"
                       /\ Registrations' =
                            [i \in 1..Len(s) |-> <<s[i].adapter, s[i].kwargs>>]
       /\ pc # "new" =>
             /\ _adapters' = _adapters /\ _adapter_specs' = _adapter_specs
             /\ Registrations' = Registrations]_vars

C17_Witness ==
    /\ pc = "ctor_raised"
    /\ _adapters # <<>> /\ _adapter_specs # <<>>

\* C18: if an adapter's source_name() raises during build_snapshot, the build
\* goes on: that adapter's fetch is still invoked, its outcome is recorded in
\* source_status under the adapter's class name, and the loop proceeds until
\* every registration has been called.
C18_NamingFailureDoesNotAbort ==
    [][/\ (pc = "loop" /\ idx <= Len(Registrations)
               /\ Registrations[idx][1].name_raises /\ idx' # idx) =>
             /\ pc' = "loop" /\ idx' = idx + 1
             /\ calls' = Append(calls, calls'[idx])
             /\ calls'[idx].adapter = Registrations[idx][1]
             /\ Registrations[idx][1].cls \in DOMAIN snapshot'.source_status
             /\ snapshot'.source_status[Registrations[idx][1].cls] =
                    IF calls'[idx].outcome = "returned" THEN "live" ELSE "failed"
       /\ (pc = "loop" /\ pc' # "loop") => Len(calls') = Len(Registrations)]_vars

C18_Witness ==
    /\ pc = "done" /\ Len(calls) = 2
    /\ calls[1].adapter = UnnamedAdapter /\ calls[1].outcome = "raised"
    /\ calls[2].adapter = AdapterA /\ calls[2].outcome = "returned"
    /\ snapshot.source_status = [n \in {"UnnamedAdapter", "A"} |->
                                    IF n = "A" THEN "live" ELSE "failed"]

\* C19: if an analysis step (traffic metrics or air-quality level) raises, the
\* error is swallowed: build_snapshot returns the merged snapshot with its full
\* status map and only the derived value of the failing step is left unset.
C19_AnalysisErrorsSwallowed ==
    (pc \in {"done", "raised"}) =>
        /\ pc = "done"
        /\ DOMAIN snapshot.source_status =
              {ResolvedName(i) : i \in 1..Len(Registrations)}
        /\ \A f \in FieldSet \ {"traffic"} :
              LatestFiller(f) > 0 => snapshot[f] = last_nonempty[f]
        /\ (snapshot.airquality # NoneV
               /\ overall_air_quality_level(snapshot.airquality).raised) =>
              airquality_status = NoneV

\* payload and timestamp were written by the same _store (or the same load)
SameWrite(payload, time) == payload.kind = "obj" => time = DateTime(payload.id)

\* C20: with concurrent calls on one AdapterCache no reader (has_cached,
\* last_success_time, the fallback path of a failing fetch) observes a
\* partially written entry: whenever it sees a payload for the name, the
\* timestamp visible for the name belongs to the same write.
C20_NoPartialEntryObserved ==
    \A t \in Threads :
        (threads[t].op \in ReaderOps /\ threads[t].pc = "idle"
            /\ threads[t].seen.payload # Absent) =>
            /\ threads[t].seen.time # Absent
            /\ SameWrite(threads[t].seen.payload, threads[t].seen.time)

\* C21: when two fetch_with_fallback calls for one name succeed concurrently
\* on one AdapterCache their stores do not interleave: once both have
\* returned, the memory payload, the memory timestamp and the durable document
\* of the name all come from the same one of the two writes.
C21_StoresDoNotInterleave ==
    \A name \in ConcNames :
        (\A t \in Threads : /\ threads[t].op = "fetch_returning"
                            /\ threads[t].pc = "idle" /\ threads[t].name = name) =>
            \E t \in Threads :
                /\ Visible(name) = [payload |-> threads[t].result,
                                    time |-> threads[t].now]
                /\ _db => /\ name \in DOMAIN firestore
                          /\ firestore[name] = Document(Blob(threads[t].result),
                                                        IsoFormat(threads[t].now))

\* C22: build_snapshot terminates even when a source's fetch does not return
\* within its timeout: the source is recorded as failed, like one whose fetch
\* raises, and the remaining registrations are processed, so every build that
\* entered the loop comes to its end.
C22_BuildTerminatesDespiteTimeout ==
    (pc = "loop") ~> (pc \in {"done", "raised"})

\* C23: the snapshot of a build carries the timestamp taken at aggregation
\* start, before any source is called, and the caller's location; merging a
\* partial result never changes the snapshot's timestamp, location or
\* source_status, whatever the partial result carries in those attributes
\* (the loop itself then records the source's status).
C23_MergeKeepsHeader ==
    [][/\ (pc = "idle" /\ pc' = "loop") =>
             /\ snapshot'.timestamp = DateTime(clock)
             /\ snapshot'.location = location'
             /\ calls' = <<>>
       /\ pc = "loop" =>
             /\ snapshot'.timestamp = snapshot.timestamp
             /\ snapshot'.location = location /\ location' = location
             /\ (Len(calls') > Len(calls)
                    /\ calls'[Len(calls')].outcome = "returned") =>
                   LET merged == _merge(snapshot, partial')
                   IN /\ merged.timestamp = snapshot.timestamp
                      /\ merged.location = snapshot.location
                      /\ merged.source_status = snapshot.source_status
                      /\ snapshot'.source_status =
                            DictSet(snapshot.source_status, ResolvedName(idx), "live")]_vars

C23_Witness ==
    /\ pc = "done" /\ location = "cork" /\ snapshot.location = "cork"
    /\ partial \notin {NoneV, Absent} /\ Filled(partial) # {}
    /\ partial.timestamp # snapshot.timestamp
    /\ partial.location # snapshot.location
    /\ "upstream" \in DOMAIN partial.source_status
    /\ "upstream" \notin DOMAIN snapshot.source_status

\* C24: each registered adapter's fetch is called with the location given to
\* build_snapshot plus exactly the keyword arguments of its own registration
\* (none for a plain adapter), never those of another registration; and
\* fetch_with_fallback hands its keyword arguments unchanged to adapter.fetch.
C24_KwargsForwarded ==
    /\ \A i \in 1..Len(calls) :
          LET kwargs == IF _adapter_specs # <<>> THEN _adapter_specs[i].kwargs
                        ELSE EmptyDict
          IN /\ calls[i].adapter = IF _adapter_specs # <<>> THEN _adapter_specs[i].adapter
                                    ELSE _adapters[i]
             /\ calls[i].entered
             /\ DOMAIN calls[i].received = DOMAIN kwargs \cup {"location"}
             /\ calls[i].received["location"] = LocationKwargs(location)["location"]
             /\ \A k \in DOMAIN kwargs \ {"location"} : calls[i].received[k] = kwargs[k]
    /\ (pc = "cache" /\ ret.op = "fetch_with_fallback" /\ ret.fetch # "none") =>
          /\ ret.fetch_kwargs = ret.kwargs
          /\ \A a \in CacheAdapters :
                a.source_name = ret.name => ret.fetch_kwargs = CacheKwargs(a)

\* C25 as stated: the analysis step changes only derived/annotation fields;
\* after it every raw slot (bikes, buses, traffic, airquality, population,
\* tours, alerts, recommendations) still holds the value the merges put there.
C25_AnalysisKeepsRawSlots ==
    [][(pc = "loop" /\ pc' \in {"done", "raised"}) =>
           \A f \in FieldSet : snapshot'[f] = snapshot[f]]_vars

\* C25, amended: the analysis step leaves every raw slot other than traffic as
\* the merges left it (the air-quality level is attached to the object in the
\* airquality slot, which stays in place), and leaves timestamp, location and
\* source_status alone; the traffic slot is left alone unless it holds a list.
C25_AnalysisKeepsRawSlotsButTraffic ==
    [][(pc = "loop" /\ pc' \in {"done", "raised"}) =>
           /\ \A f \in FieldSet \ {"traffic"} : snapshot'[f] = snapshot[f]
           /\ snapshot.traffic.kind # "list" => snapshot'.traffic = snapshot.traffic
           /\ snapshot'.timestamp = snapshot.timestamp
           /\ snapshot'.location = snapshot.location
           /\ snapshot'.source_status = snapshot.source_status]_vars

C25_Witness ==
    /\ pc = "done" /\ Len(calls) = 2
    /\ calls[1].filled = {"traffic"} /\ calls[2].filled = {"airquality"}
    /\ snapshot.traffic.kind = "TrafficMetrics"
    /\ snapshot.airquality = AirObject(IntV(40), DirtyAir, TRUE)
    /\ airquality_status # NoneV

\* C26: build_traffic_metrics is not called before all registrations are
\* merged; then, if the traffic slot holds a list, it is called exactly once,
\* with that list and radius_km = 1.0, and its result replaces the list (when
\* the call raises, the list stays and the exception leaves build_snapshot);
\* if the slot holds None or anything that is no list, the slot is left
\* unchanged and build_traffic_metrics is not called.
C26_TrafficListBecomesMetrics ==
    [][/\ pc' \in {"new", "idle", "loop"} => metrics_calls' = <<>>
       /\ (pc = "loop" /\ pc' \in {"done", "raised"}) =>
             IF snapshot.traffic.kind = "list"
             THEN LET m == build_traffic_metrics(snapshot.traffic, DefaultRadiusKm)
                  IN /\ metrics_calls' = <<[incidents |-> snapshot.traffic,
                                            radius_km |-> DefaultRadiusKm]>>
                     /\ ~m.raised => pc' = "done" /\ snapshot'.traffic = m.value
                     /\ m.raised => snapshot'.traffic = snapshot.traffic
             ELSE /\ metrics_calls' = <<>>
                  /\ snapshot'.traffic = snapshot.traffic]_vars

C26_Witness ==
    /\ pc = "done"
    /\ metrics_calls = <<[incidents |-> GoodIncidents(1), radius_km |-> DefaultRadiusKm]>>
    /\ snapshot.traffic.kind = "TrafficMetrics"
    /\ snapshot.traffic.total_incidents = 3
    /\ snapshot.traffic.congestion_level = "medium"
    /\ snapshot.traffic.incidents = GoodIncidents(1)

\* C27: fetch_with_fallback is total: whatever adapter.fetch does and however
\* the durable layer fails (obtaining the collection, reading, writing,
\* decoding a document), the call returns a (payload, status) pair with status
\* live, cached or failed, and never raises.
C27_FetchWithFallbackTotal ==
    (ret.op = "fetch_with_fallback" /\ ret.name \in CacheNames) =>
        /\ ~ret.raised
        /\ ret.status \in Statuses

\* C28: after any sequence of cache operations and for any content of the
\* durable layer, the payload map and the timestamp map of the memory layer
\* have the same keys, so has_cached(name) being true implies that
\* last_success_time(name) is not None.
C28_MemoryMapsSameKeys ==
    /\ DOMAIN _cache = DOMAIN _timestamps
    /\ \A name \in CacheNames :
          (~has_cached(name, "ok").raised /\ has_cached(name, "ok").value) =>
              last_success_time(name, "ok").time # NoneV

\* C29: has_cached is repeatable: for any cache state and any content of the
\* durable layer (a stored payload of None, a document with a missing or
\* malformed timestamp), a has_cached(name) call made right after another
\* has_cached(name) call returned, with the durable layer answering and no
\* other call running beside the two, returns the same value.
C29_HasCachedRepeatable ==
    (ret.op = "has_cached" /\ ret.mode = "ok" /\ ~ret.raised /\ ret.alone) =>
        LET again == has_cached(ret.name, "ok")
        IN ~again.raised /\ again.value = ret.value

\* C30: a fetch_with_fallback call whose adapter.fetch raises never writes to
\* or deletes from the durable layer and never changes an existing memory
\* entry (payload or timestamp) of any name, in any of its steps; all it can
\* change is to add a memory entry for its own name, copied from the document
\* its lookup read on a memory miss.
C30_FailingFetchOnlyWarms ==
    [][\A r \in Stepped :
          (r.op = "fetch_with_fallback" /\ r.fetch = "raised") =>
             /\ firestore' = firestore /\ _db' = _db
             /\ \A n \in DOMAIN _cache :
                   n \in DOMAIN _cache' /\ _cache'[n] = _cache[n]
             /\ \A n \in DOMAIN _timestamps :
                   n \in DOMAIN _timestamps' /\ _timestamps'[n] = _timestamps[n]
             /\ DOMAIN _cache' \subseteq DOMAIN _cache \cup {r.name}
             /\ DOMAIN _timestamps' \subseteq DOMAIN _timestamps \cup {r.name}
             /\ \A n \in DOMAIN _cache' \ DOMAIN _cache :
                   \E c \in waiting \ waiting' :
                      /\ ~c.r.mem_hit /\ c.call = "get" /\ c.target = n
                      /\ c.answer # Absent /\ c.answer.data = Blob(_cache'[n])
             /\ \A n \in DOMAIN _timestamps' \ DOMAIN _timestamps :
                   \E c \in waiting \ waiting' :
                      /\ c.target = n /\ c.answer # Absent
                      /\ c.answer.timestamp = IsoFormat(_timestamps'[n])]_vars

====
